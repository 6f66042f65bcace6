--------------------------- MODULE ProjectPostcode ---------------------------
(***************************************************************************)
(* Which postcode area is taken from an e-mail: the quotes with which the  *)
(* language model supports its answer are bound to one message or          *)
(* attachment of the project the latest message is about                   *)
(* (postcode_evidence), and the answer is compared with the structured     *)
(* Project fields there (extract_parameters).  A line is abstracted to     *)
(* what the code recognises in it, a quote to the line it repeats.         *)
(***************************************************************************)
EXTENDS Integers, Sequences

CONSTANTS
    Postcodes,    \* full postcodes
    AreaOf,       \* their areas
    Identities,   \* project names and references, generic words among them
    Distinctive,  \* those that are neither generic words nor postcodes
    Nothing       \* no postcode, identity or quote

ASSUME NothingIsNoPostcode == Nothing \notin Postcodes

Areas == {AreaOf[p] : p \in Postcodes}

\* What a line is: the start of a quoted message ("On ... wrote:", a forwarding marker),
\* the From of its header block, another header, the start of an attachment that was read
\* or skipped, a line with a mailbox or an URL, or any other.
LineKinds == {"marker", "from", "subject", "routing", "attachment", "skipped", "contact", "text"}

Line == [kind : LineKinds,
         names : SUBSET Identities,
         postcodes : SUBSET Postcodes,
         field : Areas \union {Nothing}]   \* of "Project: ..., AREA"

\* The answer of the language model: nothing vouches for any part of it.
Evidence == [identity : Identities \union {Nothing},
             current : Line \union {Nothing},  \* current_project_quote
             source : Line \union {Nothing},   \* source_project_quote
             address : Line]                   \* address_quote

Answer == [postcode : Postcodes \union Areas \union {Nothing},
           evidence : Evidence \union {Nothing}]

-----------------------------------------------------------------------------
(* The sources of an e-mail: an e-mail file is a non-empty sequence of lines *)

IsHeader(line) == line.kind \in {"from", "subject", "routing"}

\* _message_start
IsMessageStart(file, n) ==
    \/ file[n].kind = "marker"
    \/ /\ file[n].kind = "from"
       /\ {"subject", "routing"} \subseteq
             {file[k].kind : k \in {k \in n + 1 .. n + 15 :
                 k <= Len(file) /\ \A h \in n + 1 .. k : IsHeader(file[h])}}

IsAttachmentStart(line) == line.kind \in {"attachment", "skipped"}

\* Attachments follow the messages: once one has begun only another one ends it.
Boundaries(file) ==
    {n \in 1 .. Len(file) :
        \/ IsAttachmentStart(file[n])
        \/ /\ n > 1 /\ IsMessageStart(file, n)
           /\ \A m \in 1 .. n - 1 : ~IsAttachmentStart(file[m])}

\* The lines from n up to the next boundary.
Chunk(file, n) ==
    LET later == {m \in Boundaries(file) : m > n}
        end == IF later = {} THEN Len(file)
               ELSE (CHOOSE m \in later : \A k \in later : m <= k) - 1
    IN  SubSeq(file, n, end)

HasLine(text, Test(_)) == \E n \in DOMAIN text : Test(text[n])

\* A marker right above another boundary begins no message of its own.
IsOnlyMarkers(file, n) ==
    /\ \E m \in Boundaries(file) : m > n
    /\ LET IsOther(line) == line.kind # "marker" IN ~HasLine(Chunk(file, n), IsOther)

Starts(file) == {n \in {1} \union Boundaries(file) : ~IsOnlyMarkers(file, n)}

\* The latest message: whatever stands at the top of the file.
Current(file) == Chunk(file, CHOOSE n \in Starts(file) : \A m \in Starts(file) : n <= m)

\* Every message of the file, and the attachments that were read, with its place.
SourcesOf(file) ==
    {[text |-> Chunk(file, n), current |-> Current(file), at |-> n,
      attachment |-> IsAttachmentStart(file[n]),
      quoted |-> n \in Boundaries(file) /\ ~IsAttachmentStart(file[n])] :
        n \in {n \in Starts(file) : file[n].kind # "skipped"}}

\* Of several e-mail files of an item.
Sources(mail) == UNION {{[s EXCEPT !.at = <<f, s.at>>] : s \in SourcesOf(mail[f])} :
                          f \in DOMAIN mail}

-----------------------------------------------------------------------------
(* validated_project_context *)

Contains(text, quote) == LET IsQuote(line) == line = quote IN HasLine(text, IsQuote)

\* _project_text: routing headers, mailboxes and URLs are no evidence of a project.
IsProjectLine(line) == line.kind \notin {"from", "routing", "contact"}

ContainsInProject(text, quote) == IsProjectLine(quote) /\ Contains(text, quote)

NamesProject(text, identity) ==
    LET NamesIt(line) == IsProjectLine(line) /\ identity \in line.names
    IN  HasLine(text, NamesIt)

\* A source of the project that the latest message is about.
OfProject(source, identity) ==
    NamesProject(source.text, identity) /\ NamesProject(source.current, identity)

\* Quotes may come from different sources.
VouchedAnywhere(sources, evidence) ==
    /\ \E s \in sources : Contains(s.text, evidence.address)
    /\ \E s \in sources : ContainsInProject(s.current, evidence.current)
    /\ \E s \in sources : ContainsInProject(s.text, evidence.source)

\* One source holds the address, its project's name and, in its latest message, the
\* same name again.
Vouched(sources, evidence) ==
    \E s \in sources :
        /\ Contains(s.text, evidence.address)
        /\ ContainsInProject(s.current, evidence.current)
        /\ ContainsInProject(s.text, evidence.source)

\* An enquiry that names no project: only if nothing else can be meant.
IsSimple(sources) ==
    /\ \A s \in sources : ~s.quoted
    /\ \A s, t \in sources : s.current = t.current
    /\ \A s, t \in sources : s.attachment /\ t.attachment => s = t

NamesIdentity(quote, identity) == quote # Nothing /\ identity \in quote.names

\* The sources that may be used, none if the evidence is rejected.
ProjectContext(sources, evidence) ==
    IF evidence.identity = Nothing
    THEN IF /\ evidence.current = Nothing /\ evidence.source = Nothing
            /\ IsSimple(sources)
            /\ \E s \in sources : Contains(s.text, evidence.address)
         THEN sources ELSE {}
    ELSE IF /\ evidence.identity \in Distinctive
            /\ NamesIdentity(evidence.current, evidence.identity)
            /\ NamesIdentity(evidence.source, evidence.identity)
            /\ Vouched(sources, evidence)
         THEN {s \in sources : OfProject(s, evidence.identity)} ELSE {}

\* current_message_context
CurrentMessages(sources) == {s \in sources : ~s.quoted /\ ~s.attachment}

-----------------------------------------------------------------------------
(* extract_parameters *)

\* The areas of the structured Project fields.
FieldAreas(sources) ==
    {area \in Areas : \E s \in sources :
        LET States(line) == line.field = area IN HasLine(s.text, States)}

\* extract_postcode_area
AreaOfAnswer(postcode) == IF postcode \in Postcodes THEN AreaOf[postcode] ELSE postcode

\* _postcode_has_address_evidence
IsInAddress(postcode, quote) ==
    IF postcode \in Postcodes THEN quote.postcodes = {postcode} ELSE quote.field = postcode

\* The sources in which Project fields are looked for; none if the answer has to be
\* dropped altogether.
Context(sources, answer) ==
    IF answer.evidence # Nothing
    THEN IF answer.postcode # Nothing /\ ~IsInAddress(answer.postcode, answer.evidence.address)
         THEN {} ELSE ProjectContext(sources, answer.evidence)
    ELSE IF answer.postcode # Nothing THEN {} ELSE CurrentMessages(sources)

\* Fields that disagree with the answer or with each other leave nothing.
SelectArea(mail, answer) ==
    LET context == Context(Sources(mail), answer)
        found == FieldAreas(context) \union ({AreaOfAnswer(answer.postcode)} \ {Nothing})
    IN  IF context # {} /\ \E area \in found : found = {area}
        THEN CHOOSE area \in found : TRUE ELSE Nothing
=============================================================================
