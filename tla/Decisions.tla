------------------------------ MODULE Decisions ------------------------------
(***************************************************************************)
(* The decisions that the stages of the pipeline take about one item, each *)
(* a function of what was read for it: who asked, to which Account they    *)
(* belong, for which postcode area, with which label it is published, and  *)
(* what becomes of a failure.  A behaviour takes one of them, about one of *)
(* the given cases.                                                        *)
(***************************************************************************)
EXTENDS AccountMatch, RequesterIdentity, ProjectPostcode, FailurePolicy, PostcodeLabels

CONSTANTS
    Messages,   \* a top-level sender and a body
    Questions,  \* asked of the Account index
    Enquiries,  \* the e-mail files of an item and an answer of the language model
    Failures,   \* exceptions of a stage
    Schemas     \* read when the process starts, if they are, the labels that are read with
                \* an item later, and the area to be published

ASSUME MessagesAssumption ==
    /\ Messages \subseteq [top : Senders, body : Seq(BodyLine)]
    /\ NoOne \notin Senders \union Generic

ASSUME QuestionsAssumption == Questions \subseteq Question

ASSUME SchemasAssumption ==
    /\ \A s \in Schemas : /\ \A k \in DOMAIN s.schema.labels : s.schema.labels[k] \in Label
                          /\ \A k \in DOMAIN s.read : s.read[k] \in Label
    /\ Allowed \union Foreign \subseteq Nat \ {0} /\ Unlabelled \notin Allowed

ASSUME FailuresAssumption == Failures \subseteq Failure

VARIABLES
    stage,      \* the decision taken, "none" at first
    asked,      \* the case
    decided     \* what was decided

vars == <<stage, asked, decided>>

Init == stage = "none" /\ asked = Nothing /\ decided = Nothing

Decide(name, case, decision) == stage' = name /\ asked' = case /\ decided' = decision

\* extract_requester_identity, of one e-mail file.
FindRequester ==
    /\ stage = "none"
    /\ \E m \in Messages : Decide("requester", m, ExtractRequester(m.top, m.body))

\* _run_matching_stage
FindAccount ==
    /\ stage = "none"
    /\ \E q \in Questions : Decide("account", q, MatchInStage(q))

\* extract_parameters
FindArea ==
    /\ stage = "none"
    /\ \E e \in Enquiries : Decide("area", e, SelectArea(e.mail, e.answer))

\* The gate at startup, and the label that the stages find and publish later.
FindLabel ==
    /\ stage = "none"
    /\ \E s \in Schemas :
           Decide("label", s, [open |-> GateOpens(s.fetched, s.schema),
                               label |-> PublishLabel(s.read, s.area)])

\* A job and an event that have failed as often before, with the same exception.
HandleFailure ==
    /\ stage = "none"
    /\ \E failure \in Failures, failed \in 0 .. MaxAttempts - 1 :
           Decide("failure", [failure |-> failure, failed |-> failed],
                  [job |-> JobAfter(failure, failed + 1), event |-> EventAfter(failure, failed)])

Next == FindRequester \/ FindAccount \/ FindArea \/ FindLabel \/ HandleFailure

Spec == Init /\ [][Next]_vars

-----------------------------------------------------------------------------
(* Who asked *)

\* The requester is never a colleague, no header block nearer to the top names anybody
\* external, and between the block that names the requester and a website counted as
\* theirs there is no other block, readable or not.  Header blocks are all this is about:
\* of a message quoted below "On ... wrote:" the code counts the websites as well, against
\* README.md:187, and so does the model (requester_identity).
VouchedByOwnMessage ==
    stage = "requester" =>
        LET outside == {n \in HeaderIndexes(asked.body) : IsExternal(asked.body[n].sender)}
        IN  IF decided.sender = NoOne
            THEN ~IsExternal(asked.top) /\ outside = {} /\ decided.websites = {}
            ELSE /\ DomainOf[decided.sender] \notin Internal
                 /\ decided.domain \in {NoOne, DomainOf[decided.sender]} \ Generic
                 /\ IF IsExternal(asked.top) THEN decided.line = 0 /\ decided.sender = asked.top
                    ELSE /\ decided.line \in outside /\ \A n \in outside : decided.line <= n
                         /\ decided.sender = asked.body[decided.line].sender
                 /\ \A site \in decided.websites :
                        \E k \in decided.line + 1 .. Len(asked.body) :
                            /\ asked.body[k].kind = "website" /\ asked.body[k].domain = site
                            /\ \A n \in decided.line + 1 .. k : n \notin HeaderIndexes(asked.body)

-----------------------------------------------------------------------------
(* The Account *)

\* What speaks for an Account.
EvidenceFor(a, q) ==
    {kind \in {"domain", "alias", "website", "name", "contact"} :
        \/ kind = "domain" /\ a \in DirectMatches(q)
        \/ kind = "alias" /\ a \in AliasMatches(q)
        \/ kind = "website" /\ a \in WebsiteMatches(q)
        \/ kind = "name" /\ a \in NameMatches(q)
        \/ kind = "contact" /\ a \in LinkedAccounts(q)}

\* "If the evidence names exactly one": something speaks for a matched Account, and for
\* no other Account all of that speaks too, whichever rule decided and whether or not
\* the contacts were loaded (match_account).
NoRivalHasAsMuch ==
    stage = "account" /\ decided.account # None =>
        /\ decided.account \in EligibleAccounts(asked)
        /\ EvidenceFor(decided.account, asked) # {}
        /\ \A rival \in EligibleAccounts(asked) \ {decided.account} :
               ~(EvidenceFor(decided.account, asked) \subseteq EvidenceFor(rival, asked))

\* Domain and name never contradict each other in a match: a company name that is one
\* Account's only leaves that Account or none, a domain that Accounts claim leaves these
\* or none (match_account).
DomainAndNameAgree ==
    stage = "account" /\ decided.account # None =>
        /\ \A a \in NameMatches(asked) : NameMatches(asked) = {a} => decided.account = a
        /\ DomainMatches(asked) # {} => decided.account \in DomainMatches(asked)

\* Loading the contacts only when the first try was tied, and the accounts only when
\* there is something to compare, never changes the outcome: it is the one of a match
\* against everything (_run_matching_stage).
LazyEqualsEager == stage = "account" => decided = MatchAccount(asked)

-----------------------------------------------------------------------------
(* The postcode area *)

Shows(source, area) ==
    \E n \in DOMAIN source.text :
        \/ source.text[n].field = area
        \/ \E p \in source.text[n].postcodes : AreaOf[p] = area

\* A Project field of the source names another area.
ShowsOther(source, area) ==
    \E n \in DOMAIN source.text : source.text[n].field \in Areas \ {area}

\* An area is never borrowed from another project's message or attachment: some source
\* shows it, and either names, in its project lines, a distinctive project that its own
\* latest message names too, or it is no quoted message and the mail has at most one
\* attachment.  No field of a source of that project says otherwise (postcode_evidence,
\* extract_parameters).
NoBorrowedPostcode ==
    stage = "area" /\ decided # Nothing =>
        LET sources == Sources(asked.mail) IN
        \E s \in sources :
            /\ Shows(s, decided)
            /\ \/ /\ ~s.quoted
                  /\ s.attachment => \A t \in sources : t.attachment => t = s
                  /\ ~ShowsOther(s, decided)
               \/ \E identity \in Distinctive :
                     /\ OfProject(s, identity)
                     /\ \A t \in sources : OfProject(t, identity) => ~ShowsOther(t, decided)

-----------------------------------------------------------------------------
(* The label *)

\* While the gate is open, what is published for an area is an id of the contract, and
\* the id of the one label that read as the area when the item was read, whatever
\* happened to the labels since the process started.  If nothing did, it is the id that
\* the contract gives a required area, unless another label reads the same: then none
\* (validate_sales_board_schema, resolve_postcode_label, _postcode_label_id).
OpenGatePinsLabels ==
    stage = "label" /\ decided.open =>
        LET labels == asked.read
            alike == {k \in DOMAIN labels : AreaNamed[labels[k].name] = asked.area
                                            /\ labels[k].id # 0}
        IN  /\ decided.label # Unlabelled =>
                   /\ decided.label \in Allowed
                   /\ \E k \in alike : alike = {k} /\ UsesOf(labels, decided.label) = {k}
            /\ \A name \in DOMAIN Required :
                   labels = asked.schema.labels /\ asked.area = AreaNamed[name] =>
                       decided.label =
                           IF \E k, l \in alike : k # l THEN Unlabelled ELSE Required[name]

-----------------------------------------------------------------------------
(* Failures *)

\* A failure is retried only if nothing in it is permanent; running into a limit costs
\* no attempt and any other failure one, so retries end; jobs and webhook events agree;
\* and no retry comes before a time the server named or, after the daily limit, before
\* midnight (retry_or_fail_job, process_next_webhook_intake).
RetryIsWarranted ==
    stage = "failure" =>
        LET f == asked.failure
            errors == IF OfMonday(f) THEN f.upstream.errors ELSE {}
            lasting == {e \in errors : KindOf(e, f.upstream.http) = "permanent"}
            limits == {e \in errors : KindOf(e, f.upstream.http) = "limit"}
        IN  /\ decided.job.retried = decided.event.retried
            /\ decided.job.attempts = decided.event.attempts
            /\ lasting # {} => ~decided.job.retried
            /\ decided.job.attempts =
                   IF lasting = {} /\ limits # {} THEN asked.failed ELSE asked.failed + 1
            /\ decided.job.attempts = MaxAttempts => ~decided.job.retried
            /\ OfMonday(f) /\ decided.job.retried =>
                   \A delay \in {decided.job.delay, decided.event.delay} :
                       /\ \A d \in f.upstream.delays : delay >= d
                       /\ (\E e \in errors : e.code = "daily_limit") => delay >= Midnight
=============================================================================
