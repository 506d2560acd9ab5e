-------------------------------- MODULE Mime --------------------------------
(***************************************************************************)
(* What the loader makes of the messages of a thread                       *)
(* (notm-ui/src/thread_loader.rs) with the MIME reader of                  *)
(* notm-mail/src/mime.rs, and the later extraction of an attachment.       *)
(*                                                                         *)
(* A message is the sequence of its MIME parts in depth-first order; a     *)
(* part carries its depth, its kind and what the reader asks of it.  The   *)
(* bytes of a part, the scanning of boundaries and the decoding are        *)
(* abstracted to a size and to whether (and where) the decoding fails.     *)
(* A body is the sequence of the parts joined in it, 0 standing for the    *)
(* separator between two of them; every entry has length one.              *)
(*                                                                         *)
(* The attachments a message lists and the ones that are extracted later   *)
(* come from two different traversals (walk_part, which also chooses the   *)
(* body, and collect_attachment_data): only their counting ties one to     *)
(* the other.                                                              *)
(***************************************************************************)
EXTENDS Naturals, Sequences, FiniteSets, SequencesExt

CONSTANTS Threads,          \* threads, sequences of messages, that may be loaded
          PartLimit,        \* decoded bytes of one part, and
          TotalLimit,       \*   of all parts, when a message is parsed
          InlineLimit,      \* the same for images shown inside the HTML body
          InlineTotal,
          AttachmentCount,  \* attachment-like parts and
          PartCount,        \*   parts of a thread
          MaxDepth          \* nesting of parts

Containers == {"alternative", "related", "signed", "encrypted", "mixed"}
Leaves == {"plain", "html", "text", "calendar", "image", "signature"}

\* start is the child a related part's start parameter names (0: none, or it
\* names no child); named is a file name, attached the attachment disposition.
Parts == [depth : Nat, kind : Containers \cup Leaves, named : BOOLEAN,
          attached : BOOLEAN, start : Nat, size : Nat, blank : BOOLEAN,
          decodes : {"ok", "badqp", "badbase64", "unknown"}]

ASSUME MimeAssumption ==
    /\ {PartLimit, TotalLimit, InlineLimit, InlineTotal,
        AttachmentCount, PartCount, MaxDepth} \subseteq Nat
    /\ InlineLimit <= PartLimit /\ InlineTotal <= TotalLimit
    /\ \A t \in Threads : \A k \in DOMAIN t :
         /\ t[k] \in Seq(Parts) /\ t[k] # <<>> /\ t[k][1].depth = 0
         /\ \A i \in 2..Len(t[k]) :
              t[k][i].depth \in 1..(t[k][i - 1].depth + 1)

-----------------------------------------------------------------------------
(* The tree. *)

Inside(m, i) == {j \in (i + 1)..Len(m) : \A k \in (i + 1)..j : m[k].depth > m[i].depth}

Children(m, i) ==
    SetToSortSeq({j \in Inside(m, i) : m[j].depth = m[i].depth + 1}, <)

Parent(m, j) == CHOOSE i \in 1..(j - 1) :
                  j \in Inside(m, i) /\ m[j].depth = m[i].depth + 1

Nth(m, j) == Cardinality({i \in Inside(m, Parent(m, j)) :
                            m[i].depth = m[j].depth /\ i <= j})

IsLeaf(m, i) == Inside(m, i) = {}

-----------------------------------------------------------------------------
(* The classification both traversals share. *)

\* related_root_index
RelatedRoot(m, i) ==
    IF m[i].start \in 1..Len(Children(m, i)) THEN m[i].start ELSE 1

\* named_body_allowed_for_child
NamedBodyAllowedForChild(m, i, allowed, n) ==
    \/ m[i].kind = "alternative"
    \/ /\ allowed /\ m[i].kind # "encrypted"
       /\ n = (IF m[i].kind = "related" THEN RelatedRoot(m, i) ELSE 1)

\* The exemption as it is handed down from the root.
NamedBodyAllowed(m, j) ==
    LET allowed[i \in 1..Len(m)] ==
          IF i = 1 THEN FALSE
          ELSE NamedBodyAllowedForChild(m, Parent(m, i), allowed[Parent(m, i)], Nth(m, i))
    IN  allowed[j]

ExplicitAttachment(m, i) ==
    m[i].attached \/ (m[i].named /\ ~NamedBodyAllowed(m, i))

CryptoPart(p) == p.kind \in {"signature", "signed", "encrypted"}
TextPart(p) == p.kind \in {"plain", "html", "text", "calendar"}

\* part_is_attachment_like
AttachmentLike(p, explicit) ==
    \/ explicit
    \/ p.kind = "calendar"
    \/ ~CryptoPart(p) /\ ~TextPart(p)

\* ensure_decode_may_fit: an unknown encoding is not estimated.
MayFit(p, limit) == p.decodes = "unknown" \/ p.size <= limit

-----------------------------------------------------------------------------
(* walk_part: lists the attachments and chooses the body. *)

Reserve(s, size) ==
    IF s.total + size > TotalLimit THEN [s EXCEPT !.error = TRUE]
    ELSE [s EXCEPT !.total = @ + size]

ListPart(s, p, i) ==
    IF ~MayFit(p, PartLimit) THEN [s EXCEPT !.error = TRUE]
    ELSE LET t == [s EXCEPT !.next = @ + 1,
                            !.listed = Append(@, [index |-> s.next, part |-> i,
                                                  ok |-> p.decodes = "ok"])]
         IN  IF p.decodes = "ok" THEN Reserve(t, p.size) ELSE t

ReadBody(s, p) ==
    CASE p.decodes \in {"badqp", "unknown"} -> s
      [] p.decodes \notin {"badqp", "unknown"} /\ ~MayFit(p, PartLimit) -> [s EXCEPT !.error = TRUE]
      [] p.decodes = "badbase64" /\ MayFit(p, PartLimit) -> s
      [] p.decodes = "ok" /\ MayFit(p, PartLimit) -> Reserve(s, p.size)

WalkPart(s, m, i) ==
    IF s.error \/ ~IsLeaf(m, i) THEN s
    ELSE IF AttachmentLike(m[i], ExplicitAttachment(m, i)) THEN ListPart(s, m[i], i)
    ELSE IF CryptoPart(m[i]) THEN s
    ELSE ReadBody(s, m[i])

Walk(m) ==
    FoldLeft(LAMBDA s, i : WalkPart(s, m, i),
             [next |-> 0, listed |-> <<>>, total |-> 0, error |-> FALSE],
             [i \in 1..Len(m) |-> i])

-----------------------------------------------------------------------------
(* The body.  A scope is a stretch of the HTML and the attachments its     *)
(* images may come from; with any, those are all of the message.           *)

NoBody == [text |-> <<>>, html |-> <<>>, scopes |-> <<>>, fallback |-> <<>>]

Blank(m, body) == \A k \in DOMAIN body : body[k] # 0 /\ m[body[k]].blank

WholeScope(html) == << [start |-> 0, end |-> Len(html), any |-> TRUE, parts |-> <<>>] >>

\* append_body
Joined(m, to, from) ==
    IF Blank(m, from) THEN to
    ELSE IF Blank(m, to) THEN from
    ELSE to \o <<0>> \o from

\* append_html_body
JoinedScopes(m, to, from) ==
    LET source == IF from.scopes = <<>> THEN WholeScope(from.html) ELSE from.scopes
        kept == IF to.scopes = <<>> THEN WholeScope(Append(to.html, 0))
                ELSE [to.scopes EXCEPT ![Len(to.scopes)].end = Len(to.html) + 1]
        shifted == [k \in DOMAIN source |->
                      [source[k] EXCEPT !.start = @ + Len(to.html) + 1,
                                        !.end = @ + Len(to.html) + 1]]
    IN  IF Blank(m, from.html) THEN to.scopes
        ELSE IF Blank(m, to.html) THEN source
        ELSE kept \o shifted

\* BodySelection::append
AppendBody(m, to, from) ==
    [text     |-> Joined(m, to.text, IF from.text # <<>> THEN from.text ELSE from.fallback),
     html     |-> Joined(m, to.html, from.html),
     scopes   |-> JoinedScopes(m, to, from),
     fallback |-> to.fallback]

\* BodySelection::replace_supported
ReplaceSupported(to, from) ==
    [text     |-> IF from.text # <<>> THEN from.text ELSE to.text,
     html     |-> IF from.html # <<>> THEN from.html ELSE to.html,
     scopes   |-> IF from.html # <<>> THEN from.scopes ELSE to.scopes,
     fallback |-> IF from.fallback # <<>> THEN from.fallback ELSE to.fallback]

LeafBody(m, i) ==
    IF \/ AttachmentLike(m[i], ExplicitAttachment(m, i)) \/ CryptoPart(m[i])
       \/ m[i].decodes # "ok"
    THEN NoBody
    ELSE CASE m[i].kind = "plain" -> [NoBody EXCEPT !.text = <<i>>]
           [] m[i].kind = "html"  -> [NoBody EXCEPT !.html = <<i>>, !.scopes = WholeScope(<<i>>)]
           [] m[i].kind = "text"  -> [NoBody EXCEPT !.fallback = <<i>>]

\* The attachments of a related part outside its root, in order.
RelatedAttachments(m, i, listed) ==
    LET root == Children(m, i)[RelatedRoot(m, i)]
        others == SelectSeq(listed, LAMBDA a : a.part \in Inside(m, i)
                                               /\ a.part \notin Inside(m, root) \cup {root})
    IN  [k \in DOMAIN others |-> others[k].index]

WithRelated(body, indexes) ==
    LET scoped == IF body.scopes = <<>> THEN WholeScope(body.html) ELSE body.scopes
    IN  IF body.html = <<>> THEN body
        ELSE [body EXCEPT !.scopes =
               [k \in DOMAIN scoped |->
                  [scoped[k] EXCEPT !.any = FALSE,
                                    !.parts = @ \o SelectSeq(indexes, LAMBDA x : ~Contains(scoped[k].parts, x))]]]

\* select_multipart_body
SelectBody(m, i, listed, bodies) ==
    CASE m[i].kind = "alternative" -> FoldLeft(ReplaceSupported, NoBody, bodies)
      [] m[i].kind = "related"     -> WithRelated(bodies[RelatedRoot(m, i)],
                                                  RelatedAttachments(m, i, listed))
      [] m[i].kind = "signed"      -> bodies[1]
      [] m[i].kind = "encrypted"   -> NoBody
      [] OTHER -> FoldLeft(LAMBDA to, from : AppendBody(m, to, from), NoBody, bodies)

Body(m, listed) ==
    LET body[i \in 1..Len(m)] ==
          IF IsLeaf(m, i) THEN LeafBody(m, i)
          ELSE IF ExplicitAttachment(m, i) THEN NoBody
          ELSE SelectBody(m, i, listed,
                          [k \in DOMAIN Children(m, i) |-> body[Children(m, i)[k]]])
    IN  body[1]

-----------------------------------------------------------------------------
(* collect_attachment_data: extracts the wanted attachments.               *)

\* A part is counted by its name and disposition alone.
CountedByName(m, i) == AttachmentLike(m[i], m[i].attached \/ m[i].named)

Counted(m, i) == AttachmentLike(m[i], m[i].attached \/ (m[i].named /\ ~NamedBodyAllowed(m, i)))

Extracted(s, m, i, wanted, limits) ==
    LET counted == [s EXCEPT !.next = @ + 1]
        entry == [index |-> s.next, part |-> i]
    IN  IF s.error \/ ~IsLeaf(m, i) \/ ~Counted(m, i) THEN s
        ELSE IF s.next \notin wanted THEN counted
        ELSE IF ~MayFit(m[i], limits.part) THEN [s EXCEPT !.error = TRUE]
        ELSE IF m[i].decodes # "ok" THEN [counted EXCEPT !.failures = @ \cup {entry}]
        ELSE IF s.total + m[i].size > limits.total THEN [s EXCEPT !.error = TRUE]
        ELSE [counted EXCEPT !.total = @ + m[i].size, !.found = @ \cup {entry}]

Extract(m, wanted, limits) ==
    FoldLeft(LAMBDA s, i : Extracted(s, m, i, wanted, limits),
             [next |-> 0, total |-> 0, found |-> {}, failures |-> {}, error |-> FALSE],
             [i \in 1..Len(m) |-> i])

-----------------------------------------------------------------------------
(* The images of the HTML body.  Every HTML part refers to one image and   *)
(* every image part answers to that name, so that it is the scopes that    *)
(* decide which image is shown where.                                      *)

\* prepared_html_cid_part_scopes
PreparedScopes(html, scopes) ==
    LET covers == /\ scopes # <<>> /\ scopes[1].start = 0
                  /\ \A k \in DOMAIN scopes : scopes[k].end >= scopes[k].start
                  /\ \A k \in 2..Len(scopes) : scopes[k].start = scopes[k - 1].end
                  /\ scopes[Len(scopes)].end = Len(html)
    IN  IF covers THEN scopes
        ELSE << [start |-> 0, end |-> Len(html), any |-> scopes = <<>>, parts |-> <<>>] >>

\* The HTML parts of a scope.
HtmlIn(html, scope) == {html[k] : k \in (scope.start + 1)..scope.end} \ {0}

Candidates(scope, listed) ==
    IF scope.any THEN listed
    ELSE FlattenSeq([k \in DOMAIN scope.parts |->
                       SelectSeq(listed, LAMBDA a : a.index = scope.parts[k])])

\* select_inline_cid_segment_candidates, for the one name; 0 is no part.
PickImage(s, m, a) ==
    LET p == m[a.part] IN
    IF s.pick # 0 \/ ~a.ok \/ p.kind # "image" \/ p.size = 0 \/ p.size > InlineLimit THEN s
    ELSE IF a.index \in s.picked THEN [s EXCEPT !.pick = a.part]
    ELSE IF s.total + p.size > InlineTotal THEN s
    ELSE [s EXCEPT !.picked = @ \cup {a.index}, !.total = @ + p.size, !.pick = a.part]

PickForScope(s, m, html, scope, listed) ==
    LET after == IF \A h \in HtmlIn(html, scope) : m[h].blank THEN s
                 ELSE FoldLeft(LAMBDA t, a : PickImage(t, m, a), [s EXCEPT !.pick = 0],
                               Candidates(scope, listed))
    IN  [after EXCEPT !.images = Append(@, after.pick), !.pick = 0]

\* resolve_inline_cid_images_scoped_with_limits: the image shown in each scope.
InlineImages(m, html, scopes, listed) ==
    LET chosen == FoldLeft(LAMBDA s, scope : PickForScope(s, m, html, scope, listed),
                           [picked |-> {}, total |-> 0, images |-> <<>>, pick |-> 0], scopes)
        report == Extract(m, chosen.picked, [part |-> InlineLimit, total |-> InlineTotal])
        resources == IF report.error THEN {} ELSE {e.part : e \in report.found}
    IN  [k \in DOMAIN scopes |-> IF chosen.images[k] \in resources THEN chosen.images[k] ELSE 0]

-----------------------------------------------------------------------------
(* The bounded scan before anything is decoded (preflight_mime).           *)

PreflightCounts(p) ==
    p.named \/ p.attached \/ p.kind = "calendar" \/ (p.kind # "signature" /\ ~TextPart(p))

PreflightPart(s, m, i, left) ==
    IF s.verdict # "ok" THEN s
    ELSE IF m[i].depth > MaxDepth THEN [s EXCEPT !.verdict = "depth"]
    ELSE LET like == s.like + (IF IsLeaf(m, i) /\ PreflightCounts(m[i]) THEN 1 ELSE 0)
         IN  [like |-> like, parts |-> s.parts + 1,
              verdict |-> IF s.parts + 1 > left.parts \/ like > left.like THEN "limit" ELSE "ok"]

Preflight(m, left) ==
    FoldLeft(LAMBDA s, i : PreflightPart(s, m, i, left),
             [like |-> 0, parts |-> 0, verdict |-> "ok"], [i \in 1..Len(m) |-> i])

-----------------------------------------------------------------------------
(* The preparation of a thread, message by message, and what is asked of   *)
(* the prepared thread later.                                              *)

VARIABLES thread,    \* the messages being prepared
          prepared,  \* what is made of the first of them
          spent,     \* attachment-like parts and parts so far
          stage,     \* "loading", "ready", "refused" or "cancelled"
          report     \* the last extraction

mimeVars == <<thread, prepared, spent, stage, report>>

NoReport == [message |-> 0, wanted |-> {}, found |-> {}, failures |-> {}, error |-> FALSE]

\* A message that could not be read or parsed has nothing but its error.
FailedMessage == [parsed |-> FALSE, listed |-> <<>>, html |-> <<>>, scopes |-> <<>>, images |-> <<>>]

\* prepare_message_with_parser
PreparedMessage(m, preflight) ==
    LET walk == Walk(m)
        body == Body(m, walk.listed)
        scopes == PreparedScopes(body.html, body.scopes)
    IN  IF preflight.verdict = "depth" \/ walk.error THEN FailedMessage
        ELSE IF body.html = <<>> \/ Blank(m, body.html)
        THEN [FailedMessage EXCEPT !.parsed = TRUE, !.listed = walk.listed]
        ELSE [parsed |-> TRUE, listed |-> walk.listed, html |-> body.html, scopes |-> scopes,
              images |-> InlineImages(m, body.html, scopes, walk.listed)]

MimeInit ==
    /\ thread \in Threads
    /\ prepared = <<>>
    /\ spent = [like |-> 0, parts |-> 0]
    /\ stage = "loading"
    /\ report = NoReport

Current == thread[Len(prepared) + 1]
Remaining == [like |-> AttachmentCount - spent.like, parts |-> PartCount - spent.parts]

\* One of the files of the message is read; a message over the thread's
\* budget refuses the whole thread.
PrepareMessage ==
    /\ stage = "loading" /\ Len(prepared) < Len(thread)
    /\ LET scan == Preflight(Current, Remaining) IN
       IF scan.verdict = "limit"
       THEN stage' = "refused" /\ UNCHANGED <<prepared, spent>>
       ELSE /\ prepared' = Append(prepared, PreparedMessage(Current, scan))
            /\ spent' = [like |-> spent.like + scan.like, parts |-> spent.parts + scan.parts]
            /\ UNCHANGED stage
    /\ UNCHANGED <<thread, report>>

\* None of its files can be read, and Notmuch knows no other.
MessageUnreadable ==
    /\ stage = "loading" /\ Len(prepared) < Len(thread)
    /\ prepared' = Append(prepared, FailedMessage)
    /\ UNCHANGED <<thread, spent, stage, report>>

PreparationCancelled ==
    /\ stage = "loading"
    /\ stage' = "cancelled"
    /\ UNCHANGED <<thread, prepared, spent, report>>

ThreadPrepared ==
    /\ stage = "loading" /\ Len(prepared) = Len(thread)
    /\ stage' = "ready"
    /\ UNCHANGED <<thread, prepared, spent, report>>

Indexes(k) == {a.index : a \in Range(prepared[k].listed)}

\* Listed attachments are extracted, all or some of them, from the file.
ExtractAttachments(k, wanted) ==
    /\ stage = "ready" /\ wanted # {}
    /\ LET r == Extract(thread[k], wanted, [part |-> PartLimit, total |-> TotalLimit]) IN
       report' = [message |-> k, wanted |-> wanted, found |-> r.found,
                  failures |-> r.failures, error |-> r.error]
    /\ UNCHANGED <<thread, prepared, spent, stage>>

MimeNext ==
    \/ PrepareMessage \/ MessageUnreadable \/ PreparationCancelled \/ ThreadPrepared
    \/ \E k \in DOMAIN prepared : \E wanted \in SUBSET Indexes(k) : ExtractAttachments(k, wanted)

MimeSpec == MimeInit /\ [][MimeNext]_mimeVars

-----------------------------------------------------------------------------
(* Properties. *)

MimeTypeOK ==
    /\ Len(prepared) <= Len(thread)
    /\ spent \in [like : Nat, parts : Nat]
    /\ stage \in {"loading", "ready", "refused", "cancelled"}

\* The attachments extracted for a set of indexes are the parts that were
\* listed under those indexes, the ones that decode found and the others
\* reported, whatever set is asked for: the two traversals of mime.rs
\* (walk_part and collect_attachment_data) count alike, and a message that
\* could be listed never fails as a whole when it is extracted.
ListedIsExtracted ==
    LET k == report.message
        entries(ok) == {[index |-> a.index, part |-> a.part] :
                          a \in {b \in Range(prepared[k].listed) :
                                   b.index \in report.wanted /\ b.ok = ok}}
    IN  k # 0 => /\ ~report.error
                 /\ report.found = entries(TRUE)
                 /\ report.failures = entries(FALSE)

\* The parts an image of the HTML part h may come from: the related parts
\* around it, without the child of each that h itself stands in.
OwnParts(m, h) ==
    LET root(i) == Children(m, i)[RelatedRoot(m, i)]
    IN  UNION {Inside(m, i) \ (Inside(m, root(i)) \cup {root(i)}) :
                 i \in {j \in 1..(h - 1) : m[j].kind = "related" /\ h \in Inside(m, j)}}

\* An HTML part inside a related part shows an image of that part and no
\* other, and shows one whenever one of its own can be shown and the images
\* fit together: the scopes of select_multipart_body keep their place while
\* the bodies are joined and chosen.
ImagesOfOwnContainer ==
    \A k \in DOMAIN prepared : \A s \in DOMAIN prepared[k].scopes :
      \A h \in HtmlIn(prepared[k].html, prepared[k].scopes[s]) :
        LET m == thread[k]
            own == OwnParts(m, h)
            images == {a.part : a \in {b \in Range(prepared[k].listed) :
                                         b.ok /\ m[b.part].kind = "image"}}
            fit == /\ \A i \in images : m[i].size \in 1..InlineLimit
                   /\ Cardinality(images) * InlineLimit <= InlineTotal
            shown == prepared[k].images[s]
        IN  own # {} => /\ shown # 0 => shown \in own
                        /\ fit /\ ~m[h].blank /\ images \cap own # {} => shown # 0

\* The attachments of a prepared thread stay within its budget: what the
\* bounded scan counts before decoding is never less than what is listed.
AttachmentBudget ==
    FoldLeft(LAMBDA n, p : n + Len(p.listed), 0, prepared) <= AttachmentCount
=============================================================================
