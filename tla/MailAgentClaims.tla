---------------------------- MODULE MailAgentClaims ----------------------------
(***************************************************************************)
(* What the repository says of the agent and the code does not do: each    *)
(* statement is quoted in README.md with the counterexample.               *)
(***************************************************************************)
EXTENDS MCMailAgent

\* "the Anthropic adapter (Task 8) must pack all same-turn tool_result blocks
\* into ONE user message" (agent.go:34-35).
ResultsArePacked ==
  phase = "chat" /\ backend = "claude" => \A p \in DOMAIN Chat :
    LET n == Len(Chat[p].uses) IN
    n > 0 => p + 1 <= Len(Chat) /\ Len(Chat[p + 1].results) = n

\* "el caller normaliza limit a [1, 1000] antes de invocar" (search.go:15).
LimitIsNormalised == last.made => last.limit \in 1 .. Clamp

\* "multiple words are matched as an adjacent phrase, in order", "with prefix
\* matching on the last word" (tools.go:21, 23).
HitsArePhrases == Answered => last.hits \subseteq Phrase[last.query]
===============================================================================
