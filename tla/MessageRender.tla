------------------------------ MODULE MessageRender ------------------------------
(***************************************************************************)
(* From the HTML of a message to the text in the terminal, as functions:   *)
(* SanitizeHTML (internal/message/sanitize.go), RenderRich (render.go) and *)
(* the links, the wrapping and the footer of links.go.                     *)
(*                                                                         *)
(* HTML is a sequence of items, one after the other: words of text, links  *)
(* and images.  Words, URLs and lines are their lengths; a link is its     *)
(* href.  What the libraries do between the steps (goldmark's layout, the  *)
(* tags that bluemonday takes out) is left out.                            *)
(***************************************************************************)
EXTENDS Integers, Sequences, SequencesExt

CONSTANTS
  Href,      \* the hrefs of links
  Web,       \* those that are http or https (classifyHref)
  UrlLen,    \* UrlLen[h]: the length of the URL
  maxLinks   \* 500 in the program

\* Numbers have three digits at most (Digits).
ASSUME HrefAssumption ==
  Web \subseteq Href /\ UrlLen \in [Href -> Nat \ {0}] /\ maxLinks \in 1 .. 999

Text(words) == [kind |-> "text", words |-> words]
Link(href, words) == [kind |-> "link", href |-> href, words |-> words]
Image(src) == [kind |-> "img", src |-> src]
Item ==
  [kind : {"text"}, words : Seq(Nat)] \cup
  [kind : {"link"}, href : Href, words : Seq(Nat) \ {<<>>}] \cup
  [kind : {"img"}, src : {"cid", "remote", "data", "none"}]

------------------------------------------------------------------------------
(* SanitizeHTML *)

Placeholder == Text(<<7, 6, 9>>)   \* "[imagen remota bloqueada]"

\* Remote images give way to a text, unless they are allowed; images that are
\* neither remote nor in the message lose their src.
SanitizeImage(src, allowRemote) ==
  CASE src = "cid"    -> Image(src)
    [] src = "remote" -> IF allowRemote THEN Image(src) ELSE Placeholder
    [] OTHER          -> Image("none")
SanitizeHTML(html, allowRemote) ==
  [i \in DOMAIN html |->
     IF html[i].kind = "img" THEN SanitizeImage(html[i].src, allowRemote)
     ELSE html[i]]

------------------------------------------------------------------------------
(* linkAccumulator *)

NoLinks == [order |-> <<>>, marks |-> <<>>, dropped |-> 0]

Indexed(acc, href) == \E n \in DOMAIN acc.order : acc.order[n] = href
IndexOf(acc, href) == CHOOSE n \in DOMAIN acc.order : acc.order[n] = href

Mark(acc, n) == [acc EXCEPT !.marks = Append(@, n)]
FullOneEarly(acc) == Len(acc.order) + 1 >= maxLinks
Full(acc) == Len(acc.order) >= maxLinks

\* add: the number of a link; none for a link that comes when the list is full.
add(acc, href) ==
  IF Indexed(acc, href) THEN Mark(acc, IndexOf(acc, href))
  ELSE IF Full(acc) THEN [Mark(acc, 0) EXCEPT !.dropped = @ + 1]
  ELSE Mark([acc EXCEPT !.order = Append(@, href)], Len(acc.order) + 1)

\* newLinkRule, for every <a> in the order of the document.  A link that is not
\* for the web stays plain text: its mark is 0, as that of what is no link.
IsLink(item) == item.kind = "link"
ForTheWeb(item) == IsLink(item) /\ item.href \in Web
newLinkRule(acc, item) ==
  IF ForTheWeb(item) THEN add(acc, item.href) ELSE Mark(acc, 0)
Accumulate(html) ==
  LET acc[i \in 0 .. Len(html)] ==
        IF i = 0 THEN NoLinks ELSE newLinkRule(acc[i - 1], html[i])
  IN  acc[Len(html)]

------------------------------------------------------------------------------
(* Wrapping *)

\* chunkRunes: the lengths of the pieces of a token of length n.
AtLeastOne(width) == IF width < 1 THEN 80 ELSE width
chunkRunes(n, width) ==
  LET w == AtLeastOne(width)
      chunk[k \in 0 .. n] == IF k <= w THEN <<k>> ELSE <<w>> \o chunk[k - w]
  IN  chunk[n]

Digits(n) == IF n < 10 THEN 1 ELSE IF n < 100 THEN 2 ELSE 3

\* The fields of an item between spaces.  A link begins with the sentinel, in its
\* first word, and ends with its marker: " (n)" and the closing sentinel.
Field(len, sentinel) == [len |-> len, sentinel |-> sentinel]
Plain(words) == [i \in DOMAIN words |-> Field(words[i], FALSE)]
Fields(item, mark) ==
  CASE item.kind = "img" -> <<>>
    [] item.kind = "text" \/ (IsLink(item) /\ mark = 0) -> Plain(item.words)
    [] OTHER -> <<Field(item.words[1] + Digits(mark) + 2, TRUE)>>
                  \o Plain(Tail(item.words))
                  \o <<Field(Digits(mark) + 3, FALSE)>>

Markdown(html, marks) ==
  FlattenSeq([i \in DOMAIN html |-> Fields(html[i], marks[i])])

preWrapLongTokens(fields, width) ==
  FlattenSeq([i \in DOMAIN fields |->
    IF fields[i].sentinel THEN <<fields[i]>>
    ELSE Plain(chunkRunes(fields[i].len, width))])

\* buildFooter: "[n] " and the URL, broken to what the prefix leaves of the width.
PrefixLen(n) == Digits(n) + 3
FullWidth(n, width) == width
Avail(n, width) == LET left == width - PrefixLen(n) IN IF left < 1 THEN 1 ELSE left
FooterLines(n, href, width) ==
  LET chunks == chunkRunes(UrlLen[href], Avail(n, width))
  IN  [j \in DOMAIN chunks |-> [link |-> n, len |-> PrefixLen(n) + chunks[j]]]
buildFooter(order, width) ==
  FlattenSeq([n \in DOMAIN order |-> FooterLines(n, order[n], AtLeastOne(width))])

------------------------------------------------------------------------------
(* RenderRich *)

\* materializeSentinels: a link leads to the URL its index stands for.
Target(order, mark) == IF mark \in DOMAIN order THEN <<order[mark]>> ELSE <<>>

PlainText == [plain |-> TRUE]
RenderRich(html, width) ==
  LET w == IF width <= 0 THEN 80 ELSE width
      acc == Accumulate(html)
  IN  IF html = <<>> THEN PlainText
      ELSE [body     |-> preWrapLongTokens(Markdown(html, acc.marks), w),
            marks    |-> acc.marks,
            targets  |-> [i \in DOMAIN acc.marks |-> Target(acc.order, acc.marks[i])],
            links    |-> acc.order,
            footer   |-> buildFooter(acc.order, w),
            overflow |-> acc.dropped,
            remote   |-> \E i \in DOMAIN html : html[i] = Image("remote")]

\* mail read --rich [--load-remote]
ReadRich(html, allowRemote, width) ==
  RenderRich(SanitizeHTML(html, allowRemote), width)
================================================================================
