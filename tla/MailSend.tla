-------------------------------- MODULE MailSend --------------------------------
(***************************************************************************)
(* Writing mail: `mail send` and `mail reply` (cmd/mail), the composer of  *)
(* mail-tui (cmd/mail-tui, whose event loop is MailTui), message.Build and *)
(* ReplyHeaders (internal/message) and Sender.Send (internal/mailbox), in  *)
(* a conversation with correspondents whose programs follow RFC 5322.      *)
(*                                                                         *)
(* An address is a token: the text between two commas of a header or a     *)
(* flag.  Who[t] is the person it reaches and Lower[t] the text in lower   *)
(* case; a display name with a comma in it falls into Pieces that reach    *)
(* nobody.  A subject is the number of "Re:" it starts with, a message is  *)
(* its place in mail, and the texts of bodies are left out.                *)
(***************************************************************************)
EXTENDS Integers, Sequences, SequencesExt

CONSTANTS
  Address,   \* tokens
  Person,
  Who,       \* Who[t]: the person it reaches, or Nobody
  Lower,     \* Lower[t]: in lower case
  Plain,     \* the tokens that are addr-specs, without a display name
  Pieces,    \* Pieces[t]: what strings.Split makes of it
  Written,   \* Written[t]: what enmime makes of it in a header
  Me, Selves, \* the user, and what --from or default_from can be: tokens or None
  Typed,     \* the lists of tokens the user types for To and Cc
  Blinds,    \* ... and for Bcc
  Openings,  \* the [from, to, cc] of messages that correspondents begin with
  MaxMail,   \* a bound on the conversation
  None, Nobody

ASSUME AddressAssumption ==
  /\ Who \in [Address -> Person \cup {Nobody}] /\ Nobody \notin Person
  /\ Lower \in [Address -> Address] /\ Plain \subseteq Address
  /\ Pieces \in [Address -> Seq(Address)]
  /\ Written \in [Address -> Address] /\ \A t \in Plain : Written[t] = t
  /\ Me \in Person /\ Selves \subseteq Address \cup {None} /\ None \notin Address
\* A piece, or what enmime makes of an address, reaches nobody else.  An addr-spec
\* has no commas, a person has one of them, in any case, and the user writes as
\* themselves.
ASSUME ReachAssumption ==
  /\ \A t \in Address : /\ Who[Written[t]] \in {Who[t], Nobody}
                        /\ \A u \in ToSet(Pieces[t]) : Who[u] \in {Who[t], Nobody}
  /\ \A t \in Plain : Pieces[t] = <<t>> /\ Who[t] # Nobody
  /\ \A t, u \in Plain : Lower[t] = Lower[u] <=> Who[t] = Who[u]
  /\ \A t \in Selves \ {None} : t \in Plain /\ Who[t] = Me
ASSUME InputAssumption ==
  /\ Typed \subseteq Seq(Address) /\ Blinds \subseteq Seq(Address)
  /\ Openings \subseteq [from : Address, to : Seq(Address), cc : Seq(Address)]
  /\ MaxMail \in Nat

VARIABLES
  mail,    \* every message that was delivered, in order
  cmd      \* what the running command is doing
vars == <<mail, cmd>>

------------------------------------------------------------------------------
(* internal/message *)

SplitAddrs(list) == FlattenSeq([i \in DOMAIN list |-> Pieces[list[i]]])

\* replyAllCc: To and Cc without self and without a second spelling, compared as
\* texts in lower case.  An empty self is not looked for.
Unseen(out, t) == \A u \in ToSet(out) : Lower[u] # Lower[t]
NotSelfAsTyped(t, self) == t # self
NotSelf(t, self) == self # None => Lower[t] # Lower[self]
replyAllCc(to, cc, self) ==
  LET all == SplitAddrs(to) \o SplitAddrs(cc)
      Add(out, t) == IF NotSelf(t, self) /\ Unseen(out, t) THEN Append(out, t) ELSE out
      out[i \in 0 .. Len(all)] == IF i = 0 THEN <<>> ELSE Add(out[i - 1], all[i])
  IN  out[Len(all)]

\* ReplyHeaders.  A message without a Message-ID adds nothing to References.
ID(n) == IF mail[n].hasID THEN <<n>> ELSE <<>>
OnlyTheParent(n) == ID(n)
References(n) == mail[n].references \o ID(n)
AnotherRe(re) == re + 1
ReplySubject(re) == IF re > 0 THEN re ELSE 1

\* BuildOpts.  all: To and Cc are those of a reply-all, unedited (history).
Opts(from, to, cc, bcc, re) ==
  [from |-> from, to |-> to, cc |-> cc, bcc |-> bcc, re |-> re, irt |-> <<>>,
   references |-> <<>>, all |-> FALSE]

\* Build: enmime refuses a message without From, or without To and Cc.
BuildFails(o) == o.from = None \/ SplitAddrs(o.to) \o SplitAddrs(o.cc) = <<>>
HeaderCcBcc(o) == SplitAddrs(o.cc) \o SplitAddrs(o.bcc)
HeaderCc(o) == SplitAddrs(o.cc)
Destinations(o) == SplitAddrs(o.to) \o SplitAddrs(o.cc) \o SplitAddrs(o.bcc)

\* The message as its recipients get it.  Build hands enmime each text as an
\* addr-spec; a name-addr becomes another address.
InHeader(list) == [i \in DOMAIN list |-> Written[list[i]]]
Built(by, parent, o) ==
  [by |-> by, parent |-> parent, from |-> o.from, hasID |-> TRUE, re |-> o.re,
   to |-> InHeader(SplitAddrs(o.to)), cc |-> InHeader(HeaderCc(o)),
   irt |-> o.irt, references |-> o.references, envelope |-> Destinations(o),
   all |-> o.all]

------------------------------------------------------------------------------
Reaches(list) == {Who[t] : t \in ToSet(list)}
Received(n, p) == p \in Reaches(mail[n].envelope)
Idle == [at |-> "idle"]
Begin(by, at, parent, o) ==
  [at |-> at, by |-> by, parent |-> parent, opts |-> o]
At(stage) == cmd.at = stage
Goto(stage) == cmd' = [cmd EXCEPT !.at = stage]
Ends == cmd' = Idle /\ UNCHANGED mail
Step == UNCHANGED mail

\* A command exits with its error; the composer of mail-tui keeps the draft, which
\* can be sent again.
Fails == cmd' = IF cmd.by = "tui" THEN [cmd EXCEPT !.at = "ask"] ELSE Idle
Aborts == Fails /\ UNCHANGED mail
Starts(by, at, parent, o) == cmd' = Begin(by, at, parent, o) /\ UNCHANGED mail

Init == mail = <<>> /\ cmd = Idle

\* A correspondent writes, or answers everyone named in a message they got.
Opening(o) ==
  [to |-> o.to, cc |-> o.cc, re |-> 0, irt |-> <<>>, references |-> <<>>]
Answer(t, n) ==
  LET others == {u \in ToSet(mail[n].to \o mail[n].cc) : Who[u] # Who[t]}
  IN  [to |-> <<mail[n].from>>, cc |-> SetToSeq(others),
       re |-> 1, irt |-> ID(n), references |-> References(n)]
Post(t, n, hasID, m) ==
  mail' = Append(mail,
    [by |-> "other", parent |-> n, from |-> t, hasID |-> hasID, re |-> m.re,
     to |-> m.to, cc |-> m.cc, irt |-> m.irt, references |-> m.references,
     envelope |-> m.to \o m.cc, all |-> n # 0])

CorrespondentWrites ==
  /\ Len(mail) < MaxMail
  /\ \E hasID \in BOOLEAN :
       \/ \E o \in Openings : Post(o.from, 0, hasID, Opening(o))
       \/ \E n \in DOMAIN mail, t \in Address :
            /\ Who[t] \notin {Me, Nobody} /\ Received(n, Who[t])
            /\ Post(t, n, hasID, Answer(t, n))
  /\ UNCHANGED cmd

(* mail send *)

SendBegins ==
  /\ At("idle") /\ Len(mail) < MaxMail
  /\ \E from \in Selves, to \in Typed \ {<<>>}, cc \in Typed, bcc \in Blinds :
       Starts("send", "build", 0, Opts(from, to, cc, bcc, 0))

(* mail reply <s3Key> *)

ReplyBegins ==
  /\ At("idle") /\ Len(mail) < MaxMail
  /\ \E n \in DOMAIN mail, from \in Selves, cc \in Typed, bcc \in Blinds :
       /\ Received(n, Me)
       /\ Starts("reply", "open", n, Opts(from, <<>>, cc, bcc, 0))

\* wire.Reader, Open or Parse fails.
OpenFails == At("open") /\ Ends

\* --cc is kept when it was given; an empty list stands for a flag not given.
ReplyOpts(n, o) ==
  [o EXCEPT !.to = <<mail[n].from>>,
            !.cc = IF o.cc # <<>> THEN o.cc
                   ELSE replyAllCc(mail[n].to, mail[n].cc, o.from),
            !.all = o.cc = <<>>,
            !.re = ReplySubject(mail[n].re),
            !.irt = ID(n), !.references = References(n)]

Opened ==
  /\ At("open")
  /\ cmd' = [cmd EXCEPT !.at = "edit", !.opts = ReplyOpts(cmd.parent, cmd.opts)]
  /\ Step

EditorFails == At("edit") /\ Ends

\* The editor shows To and Subject, but what it returns is the body.
Edited == At("edit") /\ Goto("ask") /\ Step

\* Anything but "y", or the end of the input.
Declined == At("ask") /\ cmd.by = "reply" /\ Ends
Confirmed ==
  /\ At("ask") /\ cmd.by = "reply"
  /\ IF cmd.opts.from = None THEN Ends ELSE Goto("build") /\ Step

(* The composer of mail-tui *)

\* startReply: from the message, or, when it cannot be read, from its header.
TuiReplies ==
  /\ At("idle") /\ Len(mail) < MaxMail
  /\ \E n \in DOMAIN mail, from \in Selves, read \in BOOLEAN :
       /\ Received(n, Me)
       /\ Starts("tui", "ask", n,
            [Opts(from, <<mail[n].from>>,
                  IF read THEN replyAllCc(mail[n].to, mail[n].cc, from) ELSE <<>>,
                  <<>>, ReplySubject(mail[n].re)) EXCEPT !.all = read])

TuiComposes ==
  /\ At("idle") /\ Len(mail) < MaxMail
  /\ \E from \in Selves : Starts("tui", "ask", 0, Opts(from, <<>>, <<>>, <<>>, 0))

\* The fields can be edited until Ctrl-S; 'n' goes back to them, Esc leaves.
TuiTypes ==
  /\ At("ask") /\ cmd.by = "tui"
  /\ \/ \E list \in Typed, f \in {"to", "cc"} :
          cmd' = [cmd EXCEPT !.opts[f] = list, !.opts.all = FALSE]
     \/ \E list \in Blinds : cmd' = [cmd EXCEPT !.opts.bcc = list]
  /\ Step
TuiLeaves == At("ask") /\ cmd.by = "tui" /\ Ends
TuiSends == At("ask") /\ cmd.by = "tui" /\ Goto("build") /\ Step

(* What all three do *)

Refused == At("build") /\ BuildFails(cmd.opts) /\ Aborts

\* The commands make their sender now; mail-tui made its own when it started.
WireFails == At("build") /\ cmd.by # "tui" /\ Ends
Build == At("build") /\ ~BuildFails(cmd.opts) /\ Goto("transmit") /\ Step

Deliver == mail' = Append(mail, Built(cmd.by, cmd.parent, cmd.opts))

\* Sender.Send: above 10MB nothing is sent.
TooBig == At("transmit") /\ Aborts
Accepted ==
  /\ At("transmit") /\ Len(mail) < MaxMail
  /\ Deliver /\ cmd' = Idle
\* SES took the message, and its answer was lost.
AnswerLost ==
  /\ At("transmit") /\ Len(mail) < MaxMail
  /\ Deliver /\ Fails
SendFails == At("transmit") /\ Aborts
MessageRejected == At("transmit") /\ Goto("detect") /\ Step

\* DetectSandbox, which can fail itself, only chooses the words of the error.
Detect == At("detect") /\ Aborts

Next ==
  \/ CorrespondentWrites
  \/ SendBegins \/ ReplyBegins \/ OpenFails \/ Opened \/ EditorFails \/ Edited
  \/ Declined \/ Confirmed
  \/ TuiReplies \/ TuiComposes \/ TuiTypes \/ TuiLeaves \/ TuiSends
  \/ Refused \/ WireFails \/ Build
  \/ TooBig \/ Accepted \/ AnswerLost \/ SendFails \/ MessageRejected \/ Detect

Spec == Init /\ [][Next]_vars

------------------------------------------------------------------------------
(* Properties *)

Lists == Seq(Address)
OptsType ==
  [from : Selves, to : Lists, cc : Lists, bcc : Lists, re : 0 .. 1, irt : Seq(Nat),
   references : Seq(Nat), all : BOOLEAN]

MessageType ==
  [by : {"other", "send", "reply", "tui"}, parent : Nat, from : Address,
   hasID : BOOLEAN, re : 0 .. 1, to : Lists, cc : Lists, irt : Seq(Nat),
   references : Seq(Nat), envelope : Lists, all : BOOLEAN]
DraftType ==
  [at : {"open", "edit", "ask", "build", "transmit", "detect"},
   by : {"send", "reply", "tui"}, parent : Nat, opts : OptsType]

\* Types; and what is running was begun on a message that exists.
TypeOK ==
  /\ mail \in Seq(MessageType)
  /\ cmd = Idle \/ (cmd \in DraftType /\ cmd.parent \in 0 .. Len(mail))

\* The thread of a message, from its root: a reply written in mail-tui says
\* nothing of what it answers, so it is a root.
Answered(n) == IF mail[n].by = "tui" THEN 0 ELSE mail[n].parent
Thread ==
  LET thread[n \in 0 .. Len(mail)] ==
        IF n = 0 THEN <<>> ELSE thread[Answered(n)] \o ID(n)
  IN  thread

\* A reply, at any depth and whoever wrote what it answers, names all of its
\* thread in order, and its subject has one "Re:".
ThreadIsWhole ==
  \A n \in DOMAIN mail :
    /\ mail[n].references = Thread[Answered(n)]
    /\ mail[n].irt = IF Answered(n) = 0 THEN <<>> ELSE ID(Answered(n))
    /\ mail[n].re = 1 <=> mail[n].parent # 0

Named(n) == {Who[mail[n].from]} \cup Reaches(mail[n].to) \cup Reaches(mail[n].cc)
Path ==
  LET path[n \in 0 .. Len(mail)] ==
        IF n = 0 THEN {} ELSE path[mail[n].parent] \cup {n}
  IN  path

\* Those that the user puts in Bcc, but never in To or Cc, and that nobody writes to.
Public ==
  {Nobody} \cup (UNION {Reaches(l) : l \in Typed})
    \cup (UNION {Reaches(<<o.from>> \o o.to \o o.cc) : o \in Openings})
Hidden == (UNION {Reaches(b) : b \in Blinds}) \ Public

\* No header names them, in a message they got or in any answer to it by anyone,
\* before they write themselves.
BlindStaysBlind ==
  \A n \in DOMAIN mail, p \in Hidden :
    p \in Named(n) => \E e \in Path[n] : Who[mail[e].from] = p

\* An answer to all goes to everyone that the message named, in whatever
\* spelling, to the user neither in To nor in Cc unless the user wrote the
\* message, and to nobody twice in Cc; as long as addresses are plain.
AnswerReachesEveryone ==
  \A n \in DOMAIN mail :
    LET m == mail[n]  p == mail[m.parent] IN
    m.by # "other" /\ m.all
      /\ {p.from} \cup ToSet(p.to) \cup ToSet(p.cc) \subseteq Plain =>
    /\ Named(m.parent) \ {Me} \subseteq Reaches(m.envelope)
    /\ Named(m.parent) \cup {Me} = Named(n)
    /\ Me \in Reaches(m.to) \cup Reaches(m.cc) => Who[p.from] = Me
    /\ \A i, j \in DOMAIN m.cc : Who[m.cc[i]] = Who[m.cc[j]] => i = j
================================================================================
