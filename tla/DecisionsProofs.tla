--------------------------- MODULE DecisionsProofs ---------------------------
(***************************************************************************)
(* What Decisions states of each decision holds for every set of cases,    *)
(* Accounts, domains, names, lines and labels.                             *)
(*                                                                         *)
(* The inductive invariant, AsCoded, says that what was decided is what    *)
(* the code's function gives for the case.  The properties follow from it  *)
(* and from lemmas about the functions.                                    *)
(***************************************************************************)
EXTENDS Decisions, TLAPS, WellFoundedInduction

AsCoded ==
    /\ stage = "requester" => /\ asked \in Messages
                              /\ decided = ExtractRequester(asked.top, asked.body)
    /\ stage = "account" => asked \in Questions /\ decided = MatchInStage(asked)
    /\ stage = "area" => asked \in Enquiries /\ decided = SelectArea(asked.mail, asked.answer)
    /\ stage = "label" =>
          /\ asked \in Schemas
          /\ decided = [open |-> GateOpens(asked.fetched, asked.schema),
                        label |-> PublishLabel(asked.read, asked.area)]
    /\ stage = "failure" =>
          /\ asked.failure \in Failures /\ asked.failed \in 0 .. MaxAttempts - 1
          /\ decided = [job |-> JobAfter(asked.failure, asked.failed + 1),
                        event |-> EventAfter(asked.failure, asked.failed)]

\* What was decided is what the code decides.
LEMMA DecidedAsCoded == Spec => []AsCoded
<1>1. Init => AsCoded
  BY DEF Init, AsCoded
<1>2. AsCoded /\ [Next]_vars => AsCoded'
  <2> SUFFICES ASSUME AsCoded, [Next]_vars PROVE AsCoded'
    OBVIOUS
  <2>1. CASE FindRequester
    BY <2>1 DEF FindRequester, Decide, AsCoded
  <2>2. CASE FindAccount
    BY <2>2 DEF FindAccount, Decide, AsCoded
  <2>3. CASE FindArea
    BY <2>3 DEF FindArea, Decide, AsCoded
  <2>4. CASE FindLabel
    BY <2>4 DEF FindLabel, Decide, AsCoded
  <2>5. CASE HandleFailure
    BY <2>5 DEF HandleFailure, Decide, AsCoded
  <2>6. CASE UNCHANGED vars
    BY <2>6 DEF vars, AsCoded
  <2> QED
    BY <2>1, <2>2, <2>3, <2>4, <2>5, <2>6 DEF Next
<1> QED
  BY <1>1, <1>2, PTL DEF Spec

-----------------------------------------------------------------------------
(* match_account *)

Matched(accounts, reason) == [account |-> CHOOSE a \in accounts : TRUE, reason |-> reason]

\* The rules that come before the nth find nothing.
NoneBefore(q, n) ==
    /\ n > 1 => UniqueDomain(q) = {}
    /\ n > 2 => UniqueDomainAndName(q) = {}
    /\ n > 3 => UniqueContactEmail(q) = {}
    /\ n > 4 => UniqueDomainAliasWebsite(q) = {}
    /\ n > 5 => UniqueExactName(q) = {}

\* The account and reason of the first rule that finds one.
LEMMA MatchCases ==
    ASSUME NEW q
    PROVE  /\ UniqueDomain(q) # {} => MatchAccount(q) = Matched(UniqueDomain(q), "unique_domain")
           /\ NoneBefore(q, 2) /\ UniqueDomainAndName(q) # {} =>
                 MatchAccount(q) = Matched(UniqueDomainAndName(q), "unique_domain_and_name")
           /\ NoneBefore(q, 3) /\ UniqueContactEmail(q) # {} =>
                 MatchAccount(q) = Matched(UniqueContactEmail(q), "unique_contact_email")
           /\ NoneBefore(q, 4) /\ UniqueDomainAliasWebsite(q) # {} =>
                 MatchAccount(q) = Matched(UniqueDomainAliasWebsite(q), "unique_domain_alias_website")
           /\ NoneBefore(q, 5) /\ UniqueExactName(q) # {} =>
                 MatchAccount(q) = Matched(UniqueExactName(q), "unique_exact_name")
           /\ NoneBefore(q, 6) => MatchAccount(q) = Unresolved
<1> DEFINE found == << UniqueDomain(q), UniqueDomainAndName(q), UniqueContactEmail(q),
                       UniqueDomainAliasWebsite(q), UniqueExactName(q) >>
           reason == << "unique_domain", "unique_domain_and_name", "unique_contact_email",
                        "unique_domain_alias_website", "unique_exact_name" >>
           rules == {n \in 1 .. 5 : found[n] # {}}
           first == CHOOSE n \in rules : \A m \in rules : n <= m
<1>1. MatchAccount(q) = IF rules = {} THEN Unresolved ELSE Matched(found[first], reason[first])
  BY DEF MatchAccount, Matched
<1>2. ASSUME NEW n \in rules, \A m \in rules : n <= m
      PROVE  MatchAccount(q) = Matched(found[n], reason[n])
  <2>1. first \in rules /\ \A m \in rules : first <= m
    BY <1>2
  <2>2. first = n
    BY <1>2, <2>1
  <2> HIDE DEF found, reason, rules, first
  <2> QED
    BY <1>1, <1>2, <2>2
<1>3. 1 \in rules <=> UniqueDomain(q) # {}
  OBVIOUS
<1>4. 2 \in rules <=> UniqueDomainAndName(q) # {}
  OBVIOUS
<1>5. 3 \in rules <=> UniqueContactEmail(q) # {}
  OBVIOUS
<1>6. 4 \in rules <=> UniqueDomainAliasWebsite(q) # {}
  OBVIOUS
<1>7. 5 \in rules <=> UniqueExactName(q) # {}
  OBVIOUS
<1>8. rules \subseteq 1 .. 5
  OBVIOUS
<1>9. /\ found[1] = UniqueDomain(q) /\ found[2] = UniqueDomainAndName(q)
      /\ found[3] = UniqueContactEmail(q) /\ found[4] = UniqueDomainAliasWebsite(q)
      /\ found[5] = UniqueExactName(q)
      /\ reason[1] = "unique_domain" /\ reason[2] = "unique_domain_and_name"
      /\ reason[3] = "unique_contact_email" /\ reason[4] = "unique_domain_alias_website"
      /\ reason[5] = "unique_exact_name"
  OBVIOUS
<1> HIDE DEF found, reason, rules, first
<1>10. \A n \in rules : n \in 1 .. 5
  BY <1>8
<1>a. CASE 1 \in rules
  <2>1. \A m \in rules : 1 <= m
    BY <1>10
  <2> QED
    BY <1>a, <2>1, <1>2, <1>3, <1>9 DEF NoneBefore
<1>b. CASE 1 \notin rules /\ 2 \in rules
  <2>1. \A m \in rules : 2 <= m
    BY <1>10, <1>b
  <2> QED
    BY <1>b, <2>1, <1>2, <1>3, <1>4, <1>9 DEF NoneBefore
<1>c. CASE 1 \notin rules /\ 2 \notin rules /\ 3 \in rules
  <2>1. \A m \in rules : 3 <= m
    BY <1>10, <1>c
  <2> QED
    BY <1>c, <2>1, <1>2, <1>3, <1>4, <1>5, <1>9 DEF NoneBefore
<1>d. CASE 1 \notin rules /\ 2 \notin rules /\ 3 \notin rules /\ 4 \in rules
  <2>1. \A m \in rules : 4 <= m
    BY <1>10, <1>d
  <2> QED
    BY <1>d, <2>1, <1>2, <1>3, <1>4, <1>5, <1>6, <1>9 DEF NoneBefore
<1>e. CASE rules = {5}
  BY <1>e, <1>2, <1>3, <1>4, <1>5, <1>6, <1>7, <1>9 DEF NoneBefore
<1>f. CASE rules = {}
  BY <1>f, <1>1, <1>3, <1>4, <1>5, <1>6, <1>7 DEF NoneBefore
<1> QED
  BY <1>a, <1>b, <1>c, <1>d, <1>e, <1>f, <1>10

\* Where an Account that was found comes from.
LEMMA FoundByARule ==
    ASSUME NEW q, MatchAccount(q).account # None
    PROVE  LET found == MatchAccount(q).account IN
           \/ found \in UniqueDomain(q)
           \/ found \in UniqueDomainAndName(q)
           \/ found \in UniqueContactEmail(q)
           \/ found \in UniqueDomainAliasWebsite(q)
           \/ found \in UniqueExactName(q)
<1>1. Unresolved.account = None
  BY DEF Unresolved
<1>2. ASSUME NEW accounts, NEW reason, accounts # {}
      PROVE  Matched(accounts, reason).account \in accounts
  <2>1. (CHOOSE a \in accounts : TRUE) \in accounts
    BY <1>2, Zenon
  <2> QED
    BY <2>1 DEF Matched
<1> QED
  BY <1>1, <1>2, MatchCases DEF NoneBefore

\* Nothing matches a requester without domain and company.
LEMMA NothingToCompare ==
    ASSUME NEW q, q.requester.domain = None, q.requester.company = None
    PROVE  MatchAccount(q) = Unresolved
<1>1. DirectMatches(q) = {} /\ AliasMatches(q) = {} /\ NameMatches(q) = {}
  BY DEF DirectMatches, AliasMatches, NameMatches
<1>2. WebsiteMatches(q) = {}
  BY <1>1 DEF WebsiteMatches
<1>3. UniqueDomain(q) = {} /\ UniqueDomainAndName(q) = {} /\ UniqueContactEmail(q) = {}
  BY <1>1 DEF UniqueDomain, UniqueDomainAndName, UniqueContactEmail, Undisputed, IsTie
<1>4. UniqueDomainAliasWebsite(q) = {} /\ UniqueExactName(q) = {}
  BY <1>1, <1>2 DEF UniqueDomainAliasWebsite, UniqueExactName, Undisputed, Sole
<1> QED
  BY <1>3, <1>4, MatchCases DEF NoneBefore

\* Only one rule looks at the contacts.
LEMMA WithoutContacts ==
    ASSUME NEW q \in Question
    PROVE  LET bare == [q EXCEPT !.contacts = {}] IN
           /\ UniqueDomain(bare) = UniqueDomain(q)
           /\ UniqueDomainAndName(bare) = UniqueDomainAndName(q)
           /\ UniqueContactEmail(bare) = {}
           /\ UniqueDomainAliasWebsite(bare) = UniqueDomainAliasWebsite(q)
           /\ UniqueExactName(bare) = UniqueExactName(q)
<1> DEFINE bare == [q EXCEPT !.contacts = {}]
<1>1. /\ bare.index = q.index /\ bare.aliases = q.aliases /\ bare.fallback = q.fallback
      /\ bare.requester = q.requester /\ bare.contacts = {}
  BY DEF Question
<1> HIDE DEF bare
<1>2. EligibleAccounts(bare) = EligibleAccounts(q)
  BY <1>1 DEF EligibleAccounts
<1>3. /\ DirectMatches(bare) = DirectMatches(q) /\ AliasMatches(bare) = AliasMatches(q)
      /\ NameMatches(bare) = NameMatches(q)
  BY <1>1, <1>2 DEF DirectMatches, AliasMatches, NameMatches
<1>4. /\ WebsiteMatches(bare) = WebsiteMatches(q) /\ DomainMatches(bare) = DomainMatches(q)
  BY <1>1, <1>3 DEF WebsiteMatches, DomainMatches
<1>5. LinkedAccounts(bare) = {}
  BY <1>1 DEF LinkedAccounts
<1>6. \A accounts : Undisputed(accounts, bare) = Undisputed(accounts, q)
  BY <1>3 DEF Undisputed
<1>7. UniqueDomain(bare) = UniqueDomain(q) /\ UniqueDomainAndName(bare) = UniqueDomainAndName(q)
  BY <1>3, <1>4, <1>6 DEF UniqueDomain, UniqueDomainAndName
<1>8. UniqueContactEmail(bare) = {}
  BY <1>5 DEF UniqueContactEmail, Undisputed, Sole
<1>9. /\ UniqueDomainAliasWebsite(bare) = UniqueDomainAliasWebsite(q)
      /\ UniqueExactName(bare) = UniqueExactName(q)
  BY <1>1, <1>3, <1>4, <1>6 DEF UniqueDomainAliasWebsite, UniqueExactName
<1> QED
  BY <1>7, <1>8, <1>9 DEF bare

\* If several Accounts have the requester's domain, only the first three rules can decide.
LEMMA TieLeavesThreeRules ==
    ASSUME NEW q, IsTie(DirectMatches(q))
    PROVE  UniqueDomain(q) = {} /\ UniqueDomainAliasWebsite(q) = {} /\ UniqueExactName(q) = {}
<1>1. PICK a, b \in DirectMatches(q) : a # b
  BY DEF IsTie
<1>2. Sole(DomainMatches(q)) = {}
  BY <1>1 DEF Sole, DomainMatches
<1>3. q.requester.domain # None /\ DomainMatches(q) # {} /\ DirectMatches(q) # {}
  BY <1>1 DEF DirectMatches, DomainMatches
<1> QED
  BY <1>2, <1>3 DEF UniqueDomain, UniqueDomainAliasWebsite, UniqueExactName, Undisputed

\* Where the contacts are not loaded they would not have changed the match.
LEMMA ContactsNotNeeded ==
    ASSUME NEW q \in Question, ~NeedsContacts(q)
    PROVE  MatchAccount([q EXCEPT !.contacts = {}]) = MatchAccount(q)
<1> DEFINE bare == [q EXCEPT !.contacts = {}]
<1>1. /\ UniqueDomain(bare) = UniqueDomain(q)
      /\ UniqueDomainAndName(bare) = UniqueDomainAndName(q)
      /\ UniqueContactEmail(bare) = {}
      /\ UniqueDomainAliasWebsite(bare) = UniqueDomainAliasWebsite(q)
      /\ UniqueExactName(bare) = UniqueExactName(q)
  BY WithoutContacts
<1>2. CASE UniqueContactEmail(q) = {}
  BY <1>1, <1>2, MatchCases DEF NoneBefore
<1>3. CASE UniqueContactEmail(q) # {}
  <2>1. IsTie(DirectMatches(q)) /\ LinkedAccounts(q) # {}
    BY <1>3 DEF UniqueContactEmail, Undisputed, Sole
  <2>2. q.requester.email # None
    BY <2>1 DEF LinkedAccounts, ContactMatches
  <2>3. MatchAccount(bare).account # None
    BY <2>1, <2>2 DEF NeedsContacts
  <2>4. UniqueDomain(q) = {} /\ UniqueDomainAliasWebsite(q) = {} /\ UniqueExactName(q) = {}
    BY <2>1, TieLeavesThreeRules
  <2>5. UniqueDomainAndName(q) # {}
    <3>1. SUFFICES ASSUME UniqueDomainAndName(q) = {} PROVE MatchAccount(bare) = Unresolved
      BY <2>3 DEF Unresolved
    <3> QED
      BY <3>1, <1>1, <2>4, MatchCases DEF NoneBefore
  <2> QED
    BY <1>1, <2>4, <2>5, MatchCases DEF NoneBefore
<1> QED
  BY <1>2, <1>3

\* The stage gives what match_account gives for everything there is.
LEMMA LoadedIsEnough ==
    ASSUME NEW q \in Question
    PROVE  MatchInStage(q) = MatchAccount(q)
<1>1. CASE WithAccounts(q) = q
  BY <1>1, ContactsNotNeeded DEF MatchInStage
<1>2. CASE q.requester.domain = None /\ q.requester.company = None
  <2> DEFINE loaded == WithAccounts(q)
             bare == [loaded EXCEPT !.contacts = {}]
  <2>1. loaded.requester = q.requester /\ bare.requester = q.requester
    BY <1>2 DEF WithAccounts, Question
  <2> HIDE DEF loaded, bare
  <2>2. MatchAccount(q) = Unresolved /\ MatchAccount(loaded) = Unresolved
        /\ MatchAccount(bare) = Unresolved
    BY <1>2, <2>1, NothingToCompare
  <2> QED
    BY <2>2 DEF MatchInStage, loaded, bare
<1> QED
  BY <1>1, <1>2 DEF WithAccounts

\* Loading contacts and Accounts only on demand never changes the match, for every index.
THEOREM LoadingOnDemandIsSafe == Spec => []LazyEqualsEager
<1>1. AsCoded => LazyEqualsEager
  BY QuestionsAssumption, LoadedIsEnough DEF AsCoded, LazyEqualsEager
<1> QED
  BY <1>1, DecidedAsCoded, PTL

-----------------------------------------------------------------------------
(* What speaks for a match *)

LEMMA SoleIsOne ==
    ASSUME NEW accounts, NEW a \in Sole(accounts)
    PROVE  a \in accounts /\ \A b \in accounts : b = a
  BY DEF Sole

\* The rules find an eligible Account, for which something speaks and no other has as much.
LEMMA FoundHasNoRival ==
    ASSUME NEW q, NEW a,
           \/ a \in UniqueDomain(q)
           \/ a \in UniqueDomainAndName(q)
           \/ a \in UniqueContactEmail(q)
           \/ a \in UniqueDomainAliasWebsite(q)
           \/ a \in UniqueExactName(q)
    PROVE  /\ a \in EligibleAccounts(q)
           /\ EvidenceFor(a, q) # {}
           /\ \A rival \in EligibleAccounts(q) \ {a} :
                 ~(EvidenceFor(a, q) \subseteq EvidenceFor(rival, q))
<1>1. ASSUME NEW b
      PROVE  /\ "domain" \in EvidenceFor(b, q) <=> b \in DirectMatches(q)
             /\ "website" \in EvidenceFor(b, q) <=> b \in WebsiteMatches(q)
             /\ "name" \in EvidenceFor(b, q) <=> b \in NameMatches(q)
             /\ "contact" \in EvidenceFor(b, q) <=> b \in LinkedAccounts(q)
  BY DEF EvidenceFor
<1>2. /\ DirectMatches(q) \subseteq EligibleAccounts(q)
      /\ NameMatches(q) \subseteq EligibleAccounts(q)
      /\ WebsiteMatches(q) \subseteq EligibleAccounts(q)
  BY DEF DirectMatches, NameMatches, WebsiteMatches, AliasMatches
<1>3. CASE a \in UniqueDomain(q)
  <2>1. a \in DirectMatches(q) /\ a \in Sole(DomainMatches(q))
    BY <1>3 DEF UniqueDomain, Undisputed
  <2>2. \A b \in DirectMatches(q) : b = a
    BY <2>1, SoleIsOne DEF DomainMatches
  <2> QED
    BY <1>1, <1>2, <2>1, <2>2
<1>4. CASE a \in UniqueDomainAndName(q)
  <2>1. a \in Sole(DirectMatches(q) \intersect NameMatches(q))
    BY <1>4 DEF UniqueDomainAndName
  <2> QED
    BY <1>1, <1>2, <2>1, SoleIsOne
<1>5. CASE a \in UniqueContactEmail(q)
  <2>1. a \in DirectMatches(q) /\ a \in Sole(LinkedAccounts(q))
    BY <1>5 DEF UniqueContactEmail, Undisputed
  <2> QED
    BY <1>1, <1>2, <2>1, SoleIsOne
<1>6. CASE a \in UniqueDomainAliasWebsite(q)
  <2>1. a \in Sole(WebsiteMatches(q))
    BY <1>6 DEF UniqueDomainAliasWebsite, Undisputed
  <2> QED
    BY <1>1, <1>2, <2>1, SoleIsOne
<1>7. CASE a \in UniqueExactName(q)
  <2>1. a \in Sole(NameMatches(q))
    BY <1>7 DEF UniqueExactName
  <2> QED
    BY <1>1, <1>2, <2>1, SoleIsOne
<1> QED
  BY <1>3, <1>4, <1>5, <1>6, <1>7

\* For every index no other Account has all the evidence of the one that is matched.
THEOREM MatchHasNoRival == Spec => []NoRivalHasAsMuch
<1>1. AsCoded => NoRivalHasAsMuch
  <2> SUFFICES ASSUME AsCoded, stage = "account", decided.account # None
               PROVE  NoRivalHasAsMuch
    BY DEF NoRivalHasAsMuch
  <2>1. decided = MatchAccount(asked)
    BY QuestionsAssumption, LoadedIsEnough DEF AsCoded
  <2> QED
    BY <2>1, FoundByARule, FoundHasNoRival DEF NoRivalHasAsMuch
<1> QED
  BY <1>1, DecidedAsCoded, PTL

\* The rules respect a name that is one Account's only and a domain that Accounts claim.
LEMMA FoundAgrees ==
    ASSUME NEW q, NEW a,
           \/ a \in UniqueDomain(q)
           \/ a \in UniqueDomainAndName(q)
           \/ a \in UniqueContactEmail(q)
           \/ a \in UniqueDomainAliasWebsite(q)
           \/ a \in UniqueExactName(q)
    PROVE  /\ \A b \in NameMatches(q) : NameMatches(q) = {b} => a = b
           /\ DomainMatches(q) # {} => a \in DomainMatches(q)
<1>1. ASSUME NEW accounts, a \in Undisputed(accounts, q)
      PROVE  a \in accounts /\ \A b \in NameMatches(q) : NameMatches(q) = {b} => a = b
  BY <1>1 DEF Undisputed
<1>2. CASE a \in UniqueDomain(q)
  BY <1>1, <1>2 DEF UniqueDomain, DomainMatches
<1>3. CASE a \in UniqueDomainAndName(q)
  <2>1. a \in DirectMatches(q) \intersect NameMatches(q)
    BY <1>3, SoleIsOne DEF UniqueDomainAndName
  <2> QED
    BY <2>1 DEF DomainMatches
<1>4. CASE a \in UniqueContactEmail(q)
  BY <1>1, <1>4 DEF UniqueContactEmail, DomainMatches
<1>5. CASE a \in UniqueDomainAliasWebsite(q)
  <2>1. a \in WebsiteMatches(q)
    BY <1>1, <1>5, SoleIsOne DEF UniqueDomainAliasWebsite
  <2> QED
    BY <1>1, <1>5, <2>1 DEF UniqueDomainAliasWebsite, DomainMatches, WebsiteMatches
<1>6. CASE a \in UniqueExactName(q)
  <2>1. a \in Sole(NameMatches(q)) /\ (q.requester.domain = None \/ DomainMatches(q) = {})
    BY <1>6 DEF UniqueExactName
  <2>2. DomainMatches(q) = {}
    BY <2>1 DEF DomainMatches, DirectMatches, AliasMatches
  <2> QED
    BY <2>1, <2>2, SoleIsOne
<1> QED
  BY <1>2, <1>3, <1>4, <1>5, <1>6

\* For every index a match contradicts neither an unambiguous name nor a claimed domain.
THEOREM MatchAgrees == Spec => []DomainAndNameAgree
<1>1. AsCoded => DomainAndNameAgree
  <2> SUFFICES ASSUME AsCoded, stage = "account", decided.account # None
               PROVE  DomainAndNameAgree
    BY DEF DomainAndNameAgree
  <2>1. decided = MatchAccount(asked)
    BY QuestionsAssumption, LoadedIsEnough DEF AsCoded
  <2> QED
    BY <2>1, FoundByARule, FoundAgrees DEF DomainAndNameAgree
<1> QED
  BY <1>1, DecidedAsCoded, PTL

-----------------------------------------------------------------------------
(* extract_parameters *)

\* A context that was accepted with evidence holds a source with the quoted address.
LEMMA AcceptedContext ==
    ASSUME NEW sources, NEW evidence, ProjectContext(sources, evidence) # {}
    PROVE  /\ \E s \in ProjectContext(sources, evidence) : Contains(s.text, evidence.address)
           /\ ProjectContext(sources, evidence) \subseteq sources
           /\ \/ /\ ProjectContext(sources, evidence) = sources
                 /\ IsSimple(sources)
              \/ /\ evidence.identity \in Distinctive
                 /\ ProjectContext(sources, evidence)
                       = {s \in sources : OfProject(s, evidence.identity)}
<1>1. CASE evidence.identity = Nothing
  BY <1>1 DEF ProjectContext
<1>2. CASE evidence.identity # Nothing
  <2>1. /\ evidence.identity \in Distinctive
        /\ NamesIdentity(evidence.current, evidence.identity)
        /\ NamesIdentity(evidence.source, evidence.identity)
        /\ Vouched(sources, evidence)
        /\ ProjectContext(sources, evidence) = {s \in sources : OfProject(s, evidence.identity)}
    BY <1>2 DEF ProjectContext
  <2>2. PICK s \in sources : /\ Contains(s.text, evidence.address)
                             /\ ContainsInProject(s.current, evidence.current)
                             /\ ContainsInProject(s.text, evidence.source)
    BY <2>1 DEF Vouched
  <2>3. OfProject(s, evidence.identity)
    BY <2>1, <2>2 DEF OfProject, NamesProject, NamesIdentity, ContainsInProject, Contains, HasLine
  <2> QED
    BY <2>1, <2>2, <2>3
<1> QED
  BY <1>1, <1>2

\* A selected area is the only one of the context.
LEMMA SelectedIsOnly ==
    ASSUME NEW mail, NEW answer, SelectArea(mail, answer) # Nothing
    PROVE  LET context == Context(Sources(mail), answer)
               area == SelectArea(mail, answer)
           IN  /\ context # {}
               /\ FieldAreas(context) \union ({AreaOfAnswer(answer.postcode)} \ {Nothing}) = {area}
               /\ \A s \in context : ~ShowsOther(s, area)
<1> DEFINE context == Context(Sources(mail), answer)
           found == FieldAreas(context) \union ({AreaOfAnswer(answer.postcode)} \ {Nothing})
<1>1. context # {} /\ \E area \in found : found = {area}
  BY DEF SelectArea
<1>2. SelectArea(mail, answer) = CHOOSE area \in found : TRUE
  BY <1>1 DEF SelectArea
<1> HIDE DEF found
<1>3. found = {SelectArea(mail, answer)}
  BY <1>1, <1>2
<1>4. \A s \in context : ~ShowsOther(s, SelectArea(mail, answer))
  BY <1>3 DEF found, FieldAreas, ShowsOther, HasLine
<1> QED
  BY <1>1, <1>3, <1>4 DEF found

\* An address line that holds the answer shows its area.
LEMMA AddressShowsArea ==
    ASSUME NEW source, NEW quote, NEW postcode,
           Contains(source.text, quote), IsInAddress(postcode, quote)
    PROVE  Shows(source, AreaOfAnswer(postcode))
  BY DEF Contains, HasLine, IsInAddress, Shows, AreaOfAnswer

\* A field of the source shows its area.
LEMMA FieldShowsArea ==
    ASSUME NEW sources, NEW area \in FieldAreas(sources)
    PROVE  \E s \in sources : Shows(s, area)
  BY DEF FieldAreas, HasLine, Shows

\* For every mail and every answer of the model, the area comes from a source that may be used.
LEMMA SelectedFromProject ==
    ASSUME NEW mail, NEW answer, NEW area, area = SelectArea(mail, answer), area # Nothing
    PROVE  LET sources == Sources(mail) IN
           \E s \in sources :
              /\ Shows(s, area)
              /\ \/ /\ ~s.quoted
                    /\ s.attachment => \A t \in sources : t.attachment => t = s
                    /\ ~ShowsOther(s, area)
                 \/ \E identity \in Distinctive :
                       /\ OfProject(s, identity)
                       /\ \A t \in sources : OfProject(t, identity) => ~ShowsOther(t, area)
<1> DEFINE sources == Sources(mail)
           context == Context(sources, answer)
           found == FieldAreas(context) \union ({AreaOfAnswer(answer.postcode)} \ {Nothing})
<1>1. context # {} /\ found = {area} /\ \A s \in context : ~ShowsOther(s, area)
  BY SelectedIsOnly
<1>2. CASE answer.evidence = Nothing
  <2>1. answer.postcode = Nothing /\ context = CurrentMessages(sources)
    BY <1>1, <1>2 DEF Context
  <2>2. area \in FieldAreas(context)
    BY <1>1, <2>1, NothingIsNoPostcode DEF AreaOfAnswer
  <2> QED
    BY <1>1, <2>1, <2>2, FieldShowsArea DEF CurrentMessages
<1>3. CASE answer.evidence # Nothing
  <2>1. context = ProjectContext(sources, answer.evidence)
        /\ (answer.postcode = Nothing \/ IsInAddress(answer.postcode, answer.evidence.address))
    BY <1>1, <1>3 DEF Context
  <2>2. PICK s \in context : Shows(s, area)
    <3>1. CASE area \in FieldAreas(context)
      BY <3>1, FieldShowsArea
    <3>2. CASE answer.postcode # Nothing /\ area = AreaOfAnswer(answer.postcode)
      BY <3>2, <2>1, <1>1, AcceptedContext, AddressShowsArea
    <3>3. AreaOfAnswer(Nothing) = Nothing
      BY NothingIsNoPostcode DEF AreaOfAnswer
    <3> QED
      BY <1>1, <3>1, <3>2, <3>3
  <2>3. context \subseteq sources
    BY <1>1, <2>1, AcceptedContext
  <2>4. CASE context = sources /\ IsSimple(sources)
    BY <1>1, <2>2, <2>3, <2>4 DEF IsSimple
  <2>5. CASE /\ answer.evidence.identity \in Distinctive
             /\ context = {t \in sources : OfProject(t, answer.evidence.identity)}
    BY <1>1, <2>2, <2>3, <2>5
  <2> QED
    BY <1>1, <2>1, <2>4, <2>5, AcceptedContext
<1> QED
  BY <1>2, <1>3

\* For all mails and answers of the language model, no area is borrowed from another project.
THEOREM AreaIsNotBorrowed == Spec => []NoBorrowedPostcode
<1>1. AsCoded => NoBorrowedPostcode
  BY SelectedFromProject DEF AsCoded, NoBorrowedPostcode
<1> QED
  BY <1>1, DecidedAsCoded, PTL

-----------------------------------------------------------------------------
(* The gate and the label *)

\* A dropdown that the gate accepts pins the id of every required label.
LEMMA AcceptedLabelsArePinned ==
    ASSUME NEW labels, NEW name \in DOMAIN Required, LabelsMatch(labels),
           \A k \in DOMAIN labels : labels[k] \in Label
    PROVE  LET area == AreaNamed[name]
               alike == {k \in DOMAIN labels : AreaNamed[labels[k].name] = area
                                               /\ labels[k].id # 0}
           IN  PublishLabel(labels, area) =
                  IF \E k, l \in alike : k # l THEN Unlabelled ELSE Required[name]
<1> DEFINE area == AreaNamed[name]
           alike == {k \in DOMAIN labels : AreaNamed[labels[k].name] = area /\ labels[k].id # 0}
<1>1. \A k \in DOMAIN labels : labels[k].id \in Nat
  BY SchemasAssumption DEF Label, Ids, Allowed
<1>2. alike = Matching(labels, area)
  BY <1>1 DEF Matching
<1>3. PICK k \in DOMAIN labels : labels[k].name = name /\ labels[k].id = Required[name]
  BY DEF LabelsMatch, IdsNamed
<1>4. k \in alike
  BY <1>3, SchemasAssumption DEF Allowed
<1>5. \A l \in DOMAIN labels : labels[l].id = Required[name] => labels[l].name = name
  BY DEF LabelsMatch, NamesOf
<1>6. CASE \E m, l \in alike : m # l
  BY <1>2, <1>6, SchemasAssumption DEF ResolveLabel, PublishLabel
<1>7. CASE ~\E m, l \in alike : m # l
  <2>1. Matching(labels, area) = {k}
    BY <1>2, <1>4, <1>7
  <2>2. UsesOf(labels, labels[k].id) = {k}
    <3>1. \A l \in DOMAIN labels : labels[l].id = labels[k].id => l \in alike
      BY <1>3, <1>5, SchemasAssumption DEF Allowed
    <3> QED
      BY <3>1, <1>4, <1>7 DEF UsesOf
  <2>3. (CHOOSE l \in Matching(labels, area) : TRUE) = k
    <3>1. \E l : l \in Matching(labels, area)
      BY <2>1
    <3>2. (CHOOSE l \in Matching(labels, area) : TRUE) \in Matching(labels, area)
      BY <3>1, Zenon
    <3> QED
      BY <2>1, <3>2
  <2>4. ResolveLabel(labels, area) = Required[name]
    BY <1>3, <2>1, <2>2, <2>3 DEF ResolveLabel
  <2> QED
    BY <1>7, <2>4 DEF PublishLabel, Allowed
<1> QED
  BY <1>6, <1>7

\* A label that is published is of the contract, and is the only one that reads as the
\* area and the only one with its id.
LEMMA PublishedReadsAsTheArea ==
    ASSUME NEW labels, NEW area, \A k \in DOMAIN labels : labels[k] \in Label,
           PublishLabel(labels, area) # Unlabelled
    PROVE  LET alike == {k \in DOMAIN labels : AreaNamed[labels[k].name] = area
                                               /\ labels[k].id # 0}
               id == PublishLabel(labels, area)
           IN  id \in Allowed /\ \E k \in alike : alike = {k} /\ UsesOf(labels, id) = {k}
<1> DEFINE alike == {k \in DOMAIN labels : AreaNamed[labels[k].name] = area /\ labels[k].id # 0}
<1>1. \A k \in DOMAIN labels : labels[k].id \in Nat
  BY SchemasAssumption DEF Label, Ids
<1>2. alike = Matching(labels, area)
  BY <1>1 DEF Matching
<1>3. ResolveLabel(labels, area) \in Allowed /\ PublishLabel(labels, area) = ResolveLabel(labels, area)
  BY DEF PublishLabel
<1>4. ResolveLabel(labels, area) # Unlabelled
  BY <1>3
<1>5. PICK k \in Matching(labels, area) :
         Matching(labels, area) = {k} /\ UsesOf(labels, labels[k].id) = {k}
  BY <1>4 DEF ResolveLabel
<1>6. (CHOOSE l \in Matching(labels, area) : TRUE) = k
  <2>1. (CHOOSE l \in Matching(labels, area) : TRUE) \in Matching(labels, area)
    BY <1>5, Zenon
  <2> QED
    BY <1>5, <2>1
<1>7. ResolveLabel(labels, area) = labels[k].id
  BY <1>5, <1>6 DEF ResolveLabel
<1> QED
  BY <1>2, <1>3, <1>5, <1>7

\* For all labels and contracts, whatever is published is a label of the contract that
\* reads as the area, and the contract's own if the labels are those of the open gate.
THEOREM OpenGatePins == Spec => []OpenGatePinsLabels
<1>1. AsCoded => OpenGatePinsLabels
  <2> SUFFICES ASSUME AsCoded, stage = "label", decided.open PROVE OpenGatePinsLabels
    BY DEF OpenGatePinsLabels
  <2> DEFINE alike == {k \in DOMAIN asked.read : AreaNamed[asked.read[k].name] = asked.area
                                                 /\ asked.read[k].id # 0}
  <2>1. /\ decided.label = PublishLabel(asked.read, asked.area)
        /\ GateOpens(asked.fetched, asked.schema)
        /\ asked \in Schemas
    BY DEF AsCoded
  <2>2. LabelsMatch(asked.schema.labels)
    BY <2>1 DEF GateOpens, SchemaMatches
  <2>3. \A k \in DOMAIN asked.read : asked.read[k] \in Label
    BY <2>1, SchemasAssumption
  <2>4. decided.label # Unlabelled =>
           /\ decided.label \in Allowed
           /\ \E k \in alike : alike = {k} /\ UsesOf(asked.read, decided.label) = {k}
    BY <2>1, <2>3, PublishedReadsAsTheArea
  <2>5. ASSUME NEW name \in DOMAIN Required, asked.read = asked.schema.labels,
               asked.area = AreaNamed[name]
        PROVE  decided.label = IF \E k, l \in alike : k # l THEN Unlabelled ELSE Required[name]
    <3>1. LabelsMatch(asked.read)
      BY <2>2, <2>5
    <3> QED
      <4> DEFINE like == {k \in DOMAIN asked.read :
                             AreaNamed[asked.read[k].name] = AreaNamed[name]
                             /\ asked.read[k].id # 0}
      <4>1. PublishLabel(asked.read, AreaNamed[name]) =
               IF \E k, l \in like : k # l THEN Unlabelled ELSE Required[name]
        BY <2>3, <3>1, AcceptedLabelsArePinned
      <4>2. alike = like
        BY <2>5
      <4>3. decided.label = PublishLabel(asked.read, AreaNamed[name])
        BY <2>1, <2>5
      <4> HIDE DEF alike, like
      <4> QED
        BY <4>1, <4>2, <4>3
  <2> QED
    BY <2>4, <2>5 DEF OpenGatePinsLabels
<1> QED
  BY <1>1, DecidedAsCoded, PTL

-----------------------------------------------------------------------------
(* extract_requester_identity *)

LEMMA SmallestExists ==
    ASSUME NEW T, T \subseteq Nat, T # {}
    PROVE  LET least == CHOOSE n \in T : \A m \in T : n <= m
           IN  least \in T /\ \A m \in T : least <= m
<1> DEFINE Less == {pair \in Nat \X Nat : pair[1] < pair[2]}
<1>0. IsWellFoundedOn(Less, Nat)
  BY NatLessThanWellFounded DEF OpToRel
<1>1. PICK x \in T : \A y \in T : <<y, x>> \notin Less
  <2> HIDE DEF Less
  <2> QED
    BY <1>0, WFMin
<1>2. \A y \in T : x <= y
  <2>1. ASSUME NEW y \in T, y < x PROVE FALSE
    <3>1. <<y, x>> \in Less
      BY <2>1
    <3> QED
      BY <1>1, <3>1
  <2> QED
    BY <2>1
<1>3. \E n \in T : \A m \in T : n <= m
  BY <1>2
<1> QED
  BY <1>3, Zenon

LEMMA HeadersAreLines ==
    ASSUME NEW body \in Seq(BodyLine)
    PROVE  HeaderIndexes(body) \subseteq 1 .. Len(body) /\ Len(body) \in Nat
  BY DEF HeaderIndexes

\* A section stops above the next header block.
LEMMA SectionHasOneHeader ==
    ASSUME NEW body \in Seq(BodyLine), NEW n \in Nat
    PROVE  /\ SectionEnd(body, n) \in Int /\ SectionEnd(body, n) <= Len(body)
           /\ \A m \in HeaderIndexes(body) : m > n => m > SectionEnd(body, n)
<1> DEFINE later == {m \in HeaderIndexes(body) : m > n}
           next == CHOOSE m \in later : \A k \in later : m <= k
<1>1. later \subseteq Nat
  BY HeadersAreLines
<1>2. SectionEnd(body, n) = IF later = {} THEN Len(body) ELSE next - 1
  BY DEF SectionEnd
<1>3. later # {} => next \in later /\ \A k \in later : next <= k
  BY <1>1, SmallestExists
<1>4. \A m \in later : m \in 1 .. Len(body)
  BY HeadersAreLines
<1>5. \A m \in HeaderIndexes(body) : m > n => m \in later
  OBVIOUS
<1> HIDE DEF later, next
<1>6. Len(body) \in Nat
  BY HeadersAreLines
<1>7. CASE later = {}
  BY <1>2, <1>5, <1>6, <1>7
<1>8. CASE later # {}
  <2>1. next \in 1 .. Len(body) /\ SectionEnd(body, n) = next - 1
    BY <1>2, <1>3, <1>4, <1>8
  <2>2. \A m \in later : m > SectionEnd(body, n)
    BY <2>1, <1>1, <1>3, <1>8
  <2> QED
    BY <2>1, <2>2, <1>5, <1>6
<1> QED
  BY <1>7, <1>8

\* A website counted below line n stands there, with no header block in between.
LEMMA WebsitesStandBelow ==
    ASSUME NEW body \in Seq(BodyLine), NEW n \in Nat, NEW site \in WebsitesBelow(body, n)
    PROVE  \E k \in n + 1 .. Len(body) :
              /\ body[k].kind = "website" /\ body[k].domain = site
              /\ \A m \in n + 1 .. k : m \notin HeaderIndexes(body)
<1>1. PICK k \in n + 1 .. SectionEnd(body, n) : body[k].kind = "website" /\ body[k].domain = site
  BY DEF WebsitesBelow
<1>2. k \in n + 1 .. Len(body)
  BY <1>1, SectionHasOneHeader, HeadersAreLines
<1>3. \A m \in n + 1 .. k : m \notin HeaderIndexes(body)
  BY <1>1, SectionHasOneHeader
<1> QED
  BY <1>1, <1>2, <1>3

\* Three ways to end: the sender of the message, the first external sender below, nobody.
LEMMA RequesterCases ==
    ASSUME NEW top, NEW body \in Seq(BodyLine)
    PROVE  LET outside == {n \in HeaderIndexes(body) : IsExternal(body[n].sender)}
               found == ExtractRequester(top, body)
           IN  \/ /\ IsExternal(top)
                  /\ found = Identity(top, WebsitesBelow(body, 0), "top_level_sender", 0)
               \/ /\ ~IsExternal(top)
                  /\ \E n \in outside :
                        /\ \A m \in outside : n <= m
                        /\ found = Identity(body[n].sender, WebsitesBelow(body, n),
                                            "forwarded_sender", n)
               \/ ~IsExternal(top) /\ outside = {} /\ found = NotFound
<1> DEFINE outside == ExternalHeaders(body)
           first == CHOOSE n \in outside : \A m \in outside : n <= m
<1>1. outside \subseteq Nat
  BY HeadersAreLines DEF ExternalHeaders
<1>2. outside # {} => first \in outside /\ \A m \in outside : first <= m
  BY <1>1, SmallestExists
<1>3. outside = {n \in HeaderIndexes(body) : IsExternal(body[n].sender)}
  BY DEF ExternalHeaders
<1>4. ExtractRequester(top, body) =
         IF IsExternal(top) THEN Identity(top, WebsitesBelow(body, 0), "top_level_sender", 0)
         ELSE IF outside = {} THEN NotFound
         ELSE Identity(body[first].sender, WebsitesBelow(body, first), "forwarded_sender", first)
  BY DEF ExtractRequester
<1> HIDE DEF outside, first
<1> QED
  BY <1>2, <1>3, <1>4

\* What an identity says of an external sender.
LEMMA IdentityOfExternal ==
    ASSUME NEW sender, NEW websites, NEW source, NEW line, IsExternal(sender)
    PROVE  LET found == Identity(sender, websites, source, line) IN
           /\ found.sender = sender /\ found.websites = websites /\ found.line = line
           /\ DomainOf[found.sender] \notin Internal
           /\ found.domain \in {NoOne, DomainOf[found.sender]} \ Generic
  BY MessagesAssumption DEF Identity, IsExternal

\* For all bodies, hosts and windows the requester is vouched for by their own message.
THEOREM RequesterIsVouched == Spec => []VouchedByOwnMessage
<1>1. AsCoded => VouchedByOwnMessage
  <2> SUFFICES ASSUME AsCoded, stage = "requester" PROVE VouchedByOwnMessage
    BY DEF VouchedByOwnMessage
  <2> DEFINE outside == {n \in HeaderIndexes(asked.body) : IsExternal(asked.body[n].sender)}
             Own(k, site) == /\ asked.body[k].kind = "website" /\ asked.body[k].domain = site
                             /\ \A n \in decided.line + 1 .. k : n \notin HeaderIndexes(asked.body)
  <2>1. /\ asked.top \in Senders /\ asked.body \in Seq(BodyLine)
        /\ decided = ExtractRequester(asked.top, asked.body)
    BY MessagesAssumption DEF AsCoded
  <2>2. CASE IsExternal(asked.top) /\ decided = Identity(asked.top, WebsitesBelow(asked.body, 0),
                                                        "top_level_sender", 0)
    <3>1. /\ decided.sender = asked.top /\ decided.line = 0
          /\ decided.websites = WebsitesBelow(asked.body, 0)
          /\ DomainOf[decided.sender] \notin Internal
          /\ decided.domain \in {NoOne, DomainOf[decided.sender]} \ Generic
      BY <2>2, IdentityOfExternal
    <3>2. decided.sender # NoOne
      BY <2>1, <3>1, MessagesAssumption
    <3>3. \A site \in decided.websites : \E k \in decided.line + 1 .. Len(asked.body) : Own(k, site)
      BY <2>1, <3>1, WebsitesStandBelow
    <3> QED
      BY <2>2, <3>1, <3>2, <3>3 DEF VouchedByOwnMessage
  <2>3. ASSUME ~IsExternal(asked.top), NEW n \in outside, \A m \in outside : n <= m,
               decided = Identity(asked.body[n].sender, WebsitesBelow(asked.body, n),
                                  "forwarded_sender", n)
        PROVE  VouchedByOwnMessage
    <3>1. /\ decided.sender = asked.body[n].sender /\ decided.line = n
          /\ decided.websites = WebsitesBelow(asked.body, n)
          /\ DomainOf[decided.sender] \notin Internal
          /\ decided.domain \in {NoOne, DomainOf[decided.sender]} \ Generic
      BY <2>3, IdentityOfExternal
    <3>2. n \in 1 .. Len(asked.body) /\ n \in Nat
      BY <2>1, HeadersAreLines
    <3>3. decided.sender # NoOne
      <4>1. asked.body[n] \in BodyLine /\ asked.body[n].kind = "from"
        BY <2>1, <3>2 DEF HeaderIndexes
      <4>2. asked.body[n].sender \in Senders
        BY <4>1 DEF BodyLine
      <4> QED
        BY <3>1, <4>2, MessagesAssumption
    <3>4. \A site \in decided.websites : \E k \in decided.line + 1 .. Len(asked.body) : Own(k, site)
      BY <2>1, <3>1, <3>2, WebsitesStandBelow
    <3> QED
      BY <2>3, <3>1, <3>3, <3>4 DEF VouchedByOwnMessage
  <2>4. CASE ~IsExternal(asked.top) /\ outside = {} /\ decided = NotFound
    BY <2>4 DEF VouchedByOwnMessage, NotFound
  <2> QED
    BY <2>1, <2>2, <2>3, <2>4, RequesterCases
<1> QED
  BY <1>1, DecidedAsCoded, PTL

-----------------------------------------------------------------------------
(* Retries *)

LEMMA LargestOf ==
    ASSUME NEW numbers, NEW n \in numbers, \A m \in numbers : m <= n
    PROVE  Largest(numbers) \in numbers /\ \A m \in numbers : m <= Largest(numbers)
<1>1. \E k \in numbers : \A m \in numbers : m <= k
  OBVIOUS
<1>2. LET most == CHOOSE k \in numbers : \A m \in numbers : m <= k
      IN  most \in numbers /\ \A m \in numbers : m <= most
  BY <1>1, Zenon
<1> QED
  BY <1>2 DEF Largest

LEMMA LargestOfTwo ==
    ASSUME NEW a \in Nat, NEW b \in Nat
    PROVE  Largest({a, b}) \in Nat /\ a <= Largest({a, b}) /\ b <= Largest({a, b})
<1>1. \E n \in {a, b} : \A m \in {a, b} : m <= n
  <2>1. CASE a <= b
    BY <2>1
  <2>2. CASE b <= a
    BY <2>2
  <2> QED
    BY <2>1, <2>2
<1> QED
  BY <1>1, LargestOf

\* The classes of the errors decide the class of the answer.
LEMMA ClassCases ==
    ASSUME NEW response
    PROVE  LET lasting == {e \in response.errors : KindOf(e, response.http) = "permanent"}
               limits == {e \in response.errors : KindOf(e, response.http) = "limit"}
           IN  /\ ClassOf(response) = "permanent" <=> lasting # {}
               /\ ClassOf(response) = "limit" <=> lasting = {} /\ limits # {}
  BY DEF ClassOf

\* An answer is not tried again before any time it names.
LEMMA RetryAtIsLate ==
    ASSUME NEW response \in Response
    PROVE  /\ RetryAt(response) \in Nat
           /\ \A d \in response.delays : RetryAt(response) >= d
           /\ (\E e \in response.errors : e.code = "daily_limit") => RetryAt(response) >= Midnight
<1> DEFINE named == IF response.delays # {} THEN response.delays
                    ELSE {IF ClassOf(response) = "limit" THEN LimitDelay ELSE TransientDelay}
           day == {Midnight : e \in {e \in response.errors : e.code = "daily_limit"}}
<1>1. RetryAt(response) = Largest(named \union day)
  BY DEF RetryAt
<1>2. response.delays \subseteq Delays /\ named \subseteq Nat /\ day \subseteq {Midnight}
  BY DelaysAssumption DEF Response
<1>3. \E n \in named : \A m \in named : m <= n
  <2>1. CASE response.delays # {}
    BY <2>1, <1>2, DelaysAssumption
  <2>2. CASE response.delays = {}
    BY <2>2, DelaysAssumption
  <2> QED
    BY <2>1, <2>2
<1>4. (\E e \in response.errors : e.code = "daily_limit") => Midnight \in day
  OBVIOUS
<1>5. response.delays \subseteq named
  OBVIOUS
<1> HIDE DEF named, day
<1>6. PICK n \in named : \A m \in named : m <= n
  BY <1>3
<1>7. \E k \in named \union day : \A m \in named \union day : m <= k
  <2>0. Midnight \in Nat /\ n \in Nat
    BY <1>2, DelaysAssumption
  <2>1. CASE day = {} \/ Midnight <= n
    BY <1>2, <1>6, <2>0, <2>1
  <2>2. CASE day # {} /\ n <= Midnight
    <3>1. Midnight \in day
      BY <1>2, <2>2
    <3>2. ASSUME NEW m \in named PROVE m <= Midnight
      <4>1. m \in Nat /\ m <= n
        BY <1>2, <1>6
      <4> QED
        BY <2>0, <2>2, <4>1
    <3>3. \A m \in day : m = Midnight
      BY <1>2
    <3>4. Midnight <= Midnight
      BY <2>0
    <3>5. \A m \in named \union day : m <= Midnight
      BY <3>2, <3>3, <3>4
    <3> QED
      BY <3>1, <3>5
  <2> QED
    BY <2>0, <2>1, <2>2
<1>8. /\ Largest(named \union day) \in named \union day
      /\ \A m \in named \union day : m <= Largest(named \union day)
  BY <1>7, LargestOf
<1>9. named \union day \subseteq Nat
  BY <1>2, DelaysAssumption
<1> QED
  BY <1>1, <1>4, <1>5, <1>8, <1>9

\* Neither is a job or an event.
LEMMA DelayIsLate ==
    ASSUME NEW failure, OfMonday(failure), IsRetryable(failure), failure.upstream \in Response,
           NEW n \in 1 .. MaxAttempts
    PROVE  /\ \A d \in failure.upstream.delays : Delay(failure, n) >= d
           /\ (\E e \in failure.upstream.errors : e.code = "daily_limit") =>
                 Delay(failure, n) >= Midnight
<1>1. Backoff(n) \in Nat
  BY DelaysAssumption DEF Backoff
<1>2. /\ RetryAt(failure.upstream) \in Nat
      /\ \A d \in failure.upstream.delays : RetryAt(failure.upstream) >= d
      /\ (\E e \in failure.upstream.errors : e.code = "daily_limit") =>
            RetryAt(failure.upstream) >= Midnight
  BY RetryAtIsLate
<1>3. Delay(failure, n) \in Nat /\ RetryAt(failure.upstream) <= Delay(failure, n)
  BY <1>1, <1>2, LargestOfTwo DEF Delay
<1>4. failure.upstream.delays \subseteq Nat /\ Midnight \in Nat
  BY DelaysAssumption DEF Response
<1> QED
  BY <1>2, <1>3, <1>4

\* Every answer of Monday, with whatever errors and delays, is retried only if warranted.
THEOREM RetriesAreWarranted == Spec => []RetryIsWarranted
<1>1. AsCoded => RetryIsWarranted
  <2> SUFFICES ASSUME AsCoded, stage = "failure" PROVE RetryIsWarranted
    BY DEF RetryIsWarranted
  <2> DEFINE f == asked.failure
             n == asked.failed
             errors == IF OfMonday(f) THEN f.upstream.errors ELSE {}
             lasting == {e \in errors : KindOf(e, f.upstream.http) = "permanent"}
             limits == {e \in errors : KindOf(e, f.upstream.http) = "limit"}
  <2>1. /\ f \in Failure /\ n \in 0 .. MaxAttempts - 1 /\ MaxAttempts \in Nat
        /\ decided.job = JobAfter(f, n + 1) /\ decided.event = EventAfter(f, n)
    BY FailuresAssumption, DelaysAssumption DEF AsCoded
  <2>2. IsDeferred(f) <=> lasting = {} /\ limits # {}
    <3>1. CASE OfMonday(f)
      BY <3>1, ClassCases DEF IsDeferred
    <3>2. CASE ~OfMonday(f)
      BY <3>2 DEF IsDeferred
    <3> QED
      BY <3>1, <3>2
  <2>3. lasting # {} => ~IsRetryable(f)
    <3>1. CASE OfMonday(f)
      BY <3>1, ClassCases DEF IsRetryable
    <3> QED
      BY <3>1
  <2>4. OfMonday(f) => f.upstream \in Response
    BY <2>1 DEF OfMonday, Failure
  <2> HIDE DEF f, n, lasting, limits
  <2>5. /\ decided.job.attempts = IF IsDeferred(f) THEN n ELSE n + 1
        /\ decided.event.attempts = IF IsDeferred(f) THEN n ELSE n + 1
    <3>1. decided.job.attempts = IF IsDeferred(f) THEN n + 1 - 1 ELSE n + 1
      BY <2>1 DEF JobAfter
    <3>2. n + 1 - 1 = n
      BY <2>1
    <3>3. decided.event.attempts = IF IsDeferred(f) THEN n ELSE n + 1
      BY <2>1 DEF EventAfter
    <3> QED
      BY <3>1, <3>2, <3>3
  <2>6. /\ decided.job.retried = (IsRetryable(f) /\ (IsDeferred(f) \/ n + 1 < MaxAttempts))
        /\ decided.event.retried = (IsRetryable(f) /\ (IsDeferred(f) \/ n + 1 < MaxAttempts))
    <3>1. decided.job.retried = (IsRetryable(f) /\ (IsDeferred(f) \/ n + 1 < MaxAttempts))
      BY <2>1 DEF JobAfter
    <3> DEFINE attempts == IF IsDeferred(f) THEN n ELSE n + 1
    <3>2. decided.event.retried = (IsRetryable(f) /\ (IsDeferred(f) \/ attempts < MaxAttempts))
      BY <2>1 DEF EventAfter
    <3>3. CASE IsDeferred(f)
      BY <3>1, <3>2, <3>3
    <3>4. CASE ~IsDeferred(f)
      <4>1. attempts = n + 1
        BY <3>4
      <4> QED
        BY <3>1, <3>2, <4>1
    <3> QED
      BY <3>3, <3>4
  <2>7. \E k, l \in 1 .. MaxAttempts :
           decided.job.delay = Delay(f, k) /\ decided.event.delay = Delay(f, l)
    <3> DEFINE attempts == IF IsDeferred(f) THEN n ELSE n + 1
               l == IF attempts < 1 THEN 1 ELSE attempts
    <3>1. n + 1 \in 1 .. MaxAttempts /\ l \in 1 .. MaxAttempts
      BY <2>1
    <3>2. decided.job.delay = Delay(f, n + 1) /\ decided.event.delay = Delay(f, l)
      BY <2>1 DEF JobAfter, EventAfter
    <3> QED
      BY <3>1, <3>2
  <2>8. OfMonday(f) /\ IsRetryable(f) =>
           \A delay \in {decided.job.delay, decided.event.delay} :
               /\ \A d \in f.upstream.delays : delay >= d
               /\ (\E e \in errors : e.code = "daily_limit") => delay >= Midnight
    BY <2>4, <2>7, DelayIsLate
  <2>9. decided.job.attempts = MaxAttempts => ~decided.job.retried
    <3>1. CASE IsDeferred(f)
      BY <2>1, <2>5, <3>1
    <3>2. CASE ~IsDeferred(f)
      <4>1. decided.job.attempts = n + 1 /\ n \in Nat /\ MaxAttempts \in Nat
        BY <2>1, <2>5, <3>2
      <4>2. SUFFICES ASSUME n + 1 = MaxAttempts PROVE ~decided.job.retried
        BY <4>1
      <4>3. ~(n + 1 < MaxAttempts)
        BY <4>1, <4>2
      <4> QED
        BY <2>6, <3>2, <4>3, Zenon
    <3> QED
      BY <3>1, <3>2
  <2>10. decided.job.retried = decided.event.retried
         /\ decided.job.attempts = decided.event.attempts
    BY <2>5, <2>6
  <2>11. decided.job.retried => IsRetryable(f)
    BY <2>6
  <2>12. lasting # {} => ~decided.job.retried
    BY <2>3, <2>6
  <2>13. decided.job.attempts = IF lasting = {} /\ limits # {} THEN n ELSE n + 1
    BY <2>2, <2>5
  <2> QED
    BY <2>8, <2>9, <2>10, <2>11, <2>12, <2>13, Zenon DEF RetryIsWarranted, f, n, lasting, limits
<1> QED
  BY <1>1, DecidedAsCoded, PTL
=============================================================================
