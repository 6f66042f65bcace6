---------------------------- MODULE AccountMatch ----------------------------
(***************************************************************************)
(* match_account: which Account a requester belongs to, if the evidence    *)
(* names exactly one; and the matching stage, which loads the two indexes  *)
(* only when it thinks it needs them.  Domains and names are values that   *)
(* are normalised already (None where that leaves nothing).  The order of  *)
(* the index plays no role: its tuples are sets.                           *)
(***************************************************************************)
EXTENDS Integers

CONSTANTS
    AccountIds,  \* item ids of the Accounts board
    Domains,
    Names,       \* normalised company names
    Addresses,   \* hashes of e-mail addresses
    None         \* no domain, name, address or Account

AccountRecord == [active : BOOLEAN, duplicate : BOOLEAN,
                  domain : Domains \union {None}, name : Names \union {None}]

ContactRecord == [id : Nat, active : BOOLEAN, email : Addresses \union {None},
                  accounts : SUBSET AccountIds]

Requester == [domain : Domains \union {None}, company : Names \union {None},
              email : Addresses \union {None}, websites : SUBSET Domains]

\* What match_account is asked: the index has a record for some of the ids, aliases
\* gives the further domains configured for each of them.
Question == [index : UNION {[ids -> AccountRecord] : ids \in SUBSET AccountIds},
             aliases : [AccountIds -> SUBSET Domains],
             contacts : SUBSET ContactRecord,
             fallback : BOOLEAN,
             requester : Requester]

-----------------------------------------------------------------------------
(* Evidence *)

EligibleAccounts(q) == {a \in DOMAIN q.index : q.index[a].active /\ ~q.index[a].duplicate}

\* Accounts whose own domain is the requester's.
DirectMatches(q) ==
    {a \in EligibleAccounts(q) :
        q.requester.domain # None /\ q.index[a].domain = q.requester.domain}

\* Accounts for which the requester's domain is configured.
AliasMatches(q) ==
    {a \in EligibleAccounts(q) :
        q.requester.domain # None /\ q.requester.domain \in q.aliases[a]}

DomainMatches(q) == DirectMatches(q) \union AliasMatches(q)

\* Of the latter, those whose own domain is a website of the requester's signature.
WebsiteMatches(q) ==
    {a \in AliasMatches(q) :
        q.index[a].domain # None /\ q.index[a].domain \in q.requester.websites}

NameMatches(q) ==
    {a \in EligibleAccounts(q) :
        q.requester.company # None /\ q.index[a].name = q.requester.company}

ContactMatches(q) ==
    {c \in q.contacts : q.requester.email # None /\ c.active /\ c.email = q.requester.email}

\* Accounts that the only contact with the requester's address links.
LinkedAccounts(q) ==
    {a \in EligibleAccounts(q) : \E c \in q.contacts : ContactMatches(q) = {c} /\ a \in c.accounts}

IsTie(accounts) == \E a, b \in accounts : a # b

\* Any of the accounts, the first in the index say.
AnyOf(accounts) == {a \in accounts : a = CHOOSE b \in accounts : TRUE}

\* The accounts, if there is exactly one.
Sole(accounts) == {a \in accounts : accounts = {a}}

\* _name_evidence_conflicts: the company is the name of another Account, or of several.
Undisputed(accounts, q) == {a \in accounts : NameMatches(q) \in {{}, {a}}}

-----------------------------------------------------------------------------
(* The rules; each gives the one Account it finds, or none *)

UniqueDomainDisputed(q) == Sole(DomainMatches(q)) \intersect DirectMatches(q)

\* Another Account that claims the domain as an alias leaves it undecided.
UniqueDomain(q) ==
    Undisputed(Sole(DomainMatches(q)) \intersect DirectMatches(q), q)

UniqueDomainAndName(q) ==
    IF IsTie(DirectMatches(q)) THEN Sole(DirectMatches(q) \intersect NameMatches(q)) ELSE {}

UniqueContactEmail(q) ==
    IF IsTie(DirectMatches(q))
    THEN Undisputed(Sole(LinkedAccounts(q)) \intersect DirectMatches(q), q)
    ELSE {}

UniqueDomainAliasWebsite(q) ==
    IF DirectMatches(q) = {} THEN Undisputed(Sole(WebsiteMatches(q)), q) ELSE {}

UniqueExactName(q) ==
    IF q.requester.domain = None \/ (DomainMatches(q) = {} /\ q.fallback)
    THEN Sole(NameMatches(q)) ELSE {}

Unresolved == [account |-> None, reason |-> "not_found_or_ambiguous"]

\* The first rule that finds an Account decides.
MatchAccount(q) ==
    LET found == << UniqueDomain(q), UniqueDomainAndName(q), UniqueContactEmail(q),
                    UniqueDomainAliasWebsite(q), UniqueExactName(q) >>
        reason == << "unique_domain", "unique_domain_and_name", "unique_contact_email",
                     "unique_domain_alias_website", "unique_exact_name" >>
        rules == {n \in 1 .. 5 : found[n] # {}}
        first == CHOOSE n \in rules : \A m \in rules : n <= m
    IN  IF rules = {} THEN Unresolved
        ELSE [account |-> CHOOSE a \in found[first] : TRUE, reason |-> reason[first]]

-----------------------------------------------------------------------------
(* _run_matching_stage *)

\* Accounts are loaded if there is anything to compare them with.
WithAccounts(q) ==
    IF q.requester.domain # None \/ q.requester.company # None
    THEN q ELSE [q EXCEPT !.index = [a \in {} |-> None]]

NeedsContactsUnlessNamed(q) ==
    /\ MatchAccount([q EXCEPT !.contacts = {}]).account = None
    /\ IsTie(DirectMatches(q)) /\ q.requester.company = None
    /\ q.requester.email # None

\* Contacts are loaded for a second try if the first one found several Accounts of the
\* requester's domain and could not choose.
NeedsContacts(q) ==
    /\ MatchAccount([q EXCEPT !.contacts = {}]).account = None
    /\ IsTie(DirectMatches(q))
    /\ q.requester.email # None

MatchInStage(q) ==
    LET loaded == WithAccounts(q) IN
    IF NeedsContacts(loaded) THEN MatchAccount(loaded)
    ELSE MatchAccount([loaded EXCEPT !.contacts = {}])
=============================================================================
