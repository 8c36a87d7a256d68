-------------------------------- MODULE MailReader --------------------------------
(***************************************************************************)
(* The reader pane of mail-tui (cmd/mail-tui/model.go): what it shows of   *)
(* the message that was loaded last, while the user asks for its images,   *)
(* lets remote images through, and resizes the terminal.  Which load wins  *)
(* is MailTui's matter: here one load runs at a time, and a render of      *)
(* images that was started before it may come back after it.               *)
(***************************************************************************)
EXTENDS MessageRender

CONSTANTS
  Doc,       \* the HTML of messages; <<>> for a message without
  Broken,    \* the documents that SanitizeHTML cannot parse or write again
  Width,     \* widths that panelDims gives the reader
  MaxLoads,  \* a bound on loads
  NoMessage

ASSUME DocAssumption ==
  /\ Doc \subseteq Seq(Item) /\ NoMessage \notin Seq(Item)
  /\ Broken \subseteq Doc \ {<<>>}
ASSUME WidthAssumption == Width \subseteq Int /\ MaxLoads \in Nat

VARIABLES
  width,          \* of the reader
  rawHTML,        \* the HTML as it was received, or NoMessage
  currentParsed,  \* its HTML after SanitizeHTML, or NoMessage
  sanitizedBody,  \* RenderRich of it
  viewport,       \* the body, and whether images are under it
  loadRemote, showImages, imageBlobs,
  loadGen, loading,
  painting,       \* renders of images that are under way, by their tag
  asked           \* history: how often R was pressed on this message, modulo 2
reader == <<rawHTML, currentParsed, sanitizedBody, viewport, loadRemote,
            showImages, imageBlobs, asked>>
vars == <<width, reader, loadGen, loading, painting>>

Blank == PlainText
Pane(body, images) == [body |-> body, images |-> images]

Init ==
  /\ width \in Width
  /\ rawHTML = NoMessage /\ currentParsed = NoMessage
  /\ sanitizedBody = Blank /\ viewport = Pane(Blank, FALSE)
  /\ loadRemote = FALSE /\ showImages = FALSE /\ imageBlobs = FALSE
  /\ loadGen = 0 /\ loading = FALSE /\ painting = {} /\ asked = FALSE

\* The renderer works, or the plain text takes its place.
Rendered(html, w) == {RenderRich(html, w), PlainText}

StartLoad ==
  /\ ~loading /\ loadGen < MaxLoads
  /\ loadGen' = loadGen + 1 /\ loading' = TRUE
  /\ UNCHANGED <<width, reader, painting>>

LoadFails ==
  /\ loading /\ loading' = FALSE
  /\ UNCHANGED <<width, reader, loadGen, painting>>

RemoteKept == loadRemote
RemoteBlocked == FALSE

\* applyBody: a new message starts with remote images blocked and no images.
applyBody ==
  /\ loading /\ loading' = FALSE
  /\ \E doc \in Doc \ Broken :
       /\ rawHTML' = doc
       /\ currentParsed' = SanitizeHTML(doc, FALSE)
       /\ sanitizedBody' \in Rendered(currentParsed', width)
  /\ viewport' = Pane(sanitizedBody', FALSE)
  /\ loadRemote' = RemoteBlocked
  /\ showImages' = FALSE /\ imageBlobs' = FALSE
  /\ asked' = FALSE
  /\ UNCHANGED <<width, loadGen, painting>>

\* It cannot be sanitised: its plain text is shown.
applyBodyUnsanitised ==
  /\ loading /\ loading' = FALSE
  /\ \E doc \in Broken : rawHTML' = doc
  /\ currentParsed' = <<>> /\ sanitizedBody' = PlainText
  /\ viewport' = Pane(PlainText, FALSE)
  /\ loadRemote' = RemoteBlocked
  /\ showImages' = FALSE /\ imageBlobs' = FALSE
  /\ asked' = FALSE
  /\ UNCHANGED <<width, loadGen, painting>>

\* 'i'.  Which images a message carries does not show in its HTML.
ShowInline ==
  /\ currentParsed # NoMessage
  /\ showImages' = TRUE
  /\ painting' = painting \cup {loadGen}
  /\ UNCHANGED <<width, rawHTML, currentParsed, sanitizedBody, viewport,
                 loadRemote, imageBlobs, loadGen, loading, asked>>

\* imagesRenderedMsg: painted under the body, unless a newer load has begun.
ImagesRendered ==
  \E gen \in painting :
    /\ painting' = painting \ {gen}
    /\ IF gen = loadGen
       THEN imageBlobs' = TRUE /\ viewport' = Pane(sanitizedBody, TRUE)
       ELSE UNCHANGED <<imageBlobs, viewport>>
    /\ UNCHANGED <<width, rawHTML, currentParsed, sanitizedBody, loadRemote,
                   showImages, loadGen, loading, asked>>

\* 'R': the body is made again from the HTML as it was received ...
ToggleRemote ==
  /\ rawHTML \notin Broken
  /\ loadRemote' = ~loadRemote
  /\ IF currentParsed # NoMessage /\ rawHTML # <<>>
     THEN /\ currentParsed' = SanitizeHTML(rawHTML, ~loadRemote)
          /\ sanitizedBody' \in Rendered(currentParsed', width)
          /\ viewport' = Pane(sanitizedBody', FALSE)
     ELSE UNCHANGED <<currentParsed, sanitizedBody, viewport>>
  /\ asked' = (currentParsed # NoMessage /\ ~asked)
  /\ UNCHANGED <<width, rawHTML, showImages, imageBlobs, loadGen, loading, painting>>

\* ... and stays as it is when that fails.
ToggleRemoteFails ==
  /\ rawHTML \in Broken
  /\ loadRemote' = ~loadRemote /\ asked' = ~asked
  /\ UNCHANGED <<width, rawHTML, currentParsed, sanitizedBody, viewport,
                 showImages, imageBlobs, loadGen, loading, painting>>

\* handleResize: the body is rendered again, from the sanitised HTML.
Resize ==
  /\ \E w \in Width :
       /\ width' = w
       /\ IF currentParsed # NoMessage
          THEN /\ sanitizedBody' \in Rendered(currentParsed, w)
               /\ viewport' = Pane(sanitizedBody', showImages /\ imageBlobs)
          ELSE UNCHANGED <<sanitizedBody, viewport>>
  /\ UNCHANGED <<rawHTML, currentParsed, loadRemote, showImages, imageBlobs,
                 loadGen, loading, painting, asked>>

Next ==
  \/ StartLoad \/ LoadFails \/ applyBody \/ applyBodyUnsanitised
  \/ ShowInline \/ ImagesRendered \/ ToggleRemote \/ ToggleRemoteFails \/ Resize

Spec == Init /\ [][Next]_vars

------------------------------------------------------------------------------
(* Properties *)

\* What the pane shows of a message is what `mail read --rich` prints of it at the
\* present width, with --load-remote if and only if the user asked for it with R
\* on this message: after any loads, toggles, renders of images and resizes, in
\* any order.  Where rendering fails it is the plain text.
ShowsWhatWasAsked ==
  currentParsed # NoMessage =>
    viewport.body \in
      {PlainText, ReadRich(IF rawHTML \in Broken THEN <<>> ELSE rawHTML,
                           asked, width)}

Out == viewport.body
Rich == Out # PlainText

\* The hrefs for the web among the first i items of a document; and whether one
\* appears in it before another does.
HasLink(html, i, href) == ForTheWeb(html[i]) /\ html[i].href = href
Appeared(html, i) == {html[k].href : k \in {j \in 1 .. i : ForTheWeb(html[j])}}
WebHrefs(html) == Appeared(html, Len(html))
Before(html, href, other) ==
  \E i \in DOMAIN html :
    HasLink(html, i, href) /\ \A j \in 1 .. i : ~HasLink(html, j, other)
LeftOut(html, listed) == WebHrefs(html) \ ToSet(listed)

\* The footer lists each URL once, in the order in which they first appear in the
\* text, up to the cap; and each link of the text leads to its own URL and has the
\* number that the footer gives to it, or, when the cap left its URL out, no
\* number; repeats included.
LinksLeadWhereTheySay ==
  Rich =>
    LET html == currentParsed IN
    /\ ToSet(Out.links) \subseteq WebHrefs(html) /\ Len(Out.links) <= maxLinks
    /\ \A m, n \in DOMAIN Out.links :
         m < n => Before(html, Out.links[m], Out.links[n])
    /\ \A href \in LeftOut(html, Out.links) :
         /\ Len(Out.links) = maxLinks
         /\ \A n \in DOMAIN Out.links : Before(html, Out.links[n], href)
    /\ \A i \in DOMAIN html :
         IF ForTheWeb(html[i]) /\ html[i].href \in ToSet(Out.links)
         THEN Out.targets[i] = <<html[i].href>> /\ Out.links[Out.marks[i]] = html[i].href
         ELSE Out.targets[i] = <<>> /\ Out.marks[i] = 0
    /\ Out.overflow > 0 <=> LeftOut(html, Out.links) # {}

Sum(lens) ==
  LET sum[i \in 0 .. Len(lens)] == IF i = 0 THEN 0 ELSE sum[i - 1] + lens[i]
  IN  sum[Len(lens)]
Lens(fields) == [i \in DOMAIN fields |-> fields[i].len]

\* Wrapping loses nothing, and leaves no word and no line of a URL in the footer
\* wider than the pane, but for the first word of a link, and a footer in a pane
\* that is narrower than its numbers.
FitsTheWidth ==
  Rich =>
    /\ Sum(Lens(Out.body)) = Sum(Lens(Markdown(currentParsed, Out.marks)))
    /\ \A i \in DOMAIN Out.body :
         Out.body[i].sentinel \/ Out.body[i].len <= AtLeastOne(width)
    /\ \A i \in DOMAIN Out.footer :
         \/ Out.footer[i].len <= AtLeastOne(width)
         \/ width \in 1 .. PrefixLen(Out.footer[i].link)
    /\ \A n \in DOMAIN Out.links :
         Sum([i \in DOMAIN Out.footer |->
                IF Out.footer[i].link = n
                THEN Out.footer[i].len - PrefixLen(n) ELSE 0]) = UrlLen[Out.links[n]]
===================================================================================
