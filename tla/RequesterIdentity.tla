-------------------------- MODULE RequesterIdentity --------------------------
(***************************************************************************)
(* extract_requester_identity: who asked, when colleagues forward e-mails  *)
(* of customers.  A body is a sequence of lines, each taken for what the   *)
(* code recognises in it; a sender is the host of the mailbox.             *)
(***************************************************************************)
EXTENDS Integers, Sequences

CONSTANTS
    Hosts,        \* hosts of senders
    DomainOf,     \* their domains, configured aliases applied
    Internal,     \* internal_email_domains
    Generic,      \* domains of e-mail providers
    Unreadable,   \* a From header without a usable mailbox
    MarkerWindow, \* lines above a From in which a forwarding marker vouches for it
    HeaderWindow, \* lines below it in which the other headers are looked for
    NoOne         \* no external sender, no domain

Senders == Hosts \union {Unreadable}

BodyLine == [kind : {"from"}, sender : Senders]
        \union [kind : {"website"}, domain : {DomainOf[h] : h \in Hosts}]
        \union [kind : {"subject", "routing", "marker", "wrote", "blank", "text"}]
        \* "routing" is Sent, Date or To, "marker" a line like "--- Forwarded message ---",
        \* "wrote" the line "On ... wrote:" above a quoted message, of which no code here
        \* takes notice (postcode_evidence does)

-----------------------------------------------------------------------------
(* Where the forwarded messages begin *)

\* The other header lines below a From, up to the first blank line.
HeadersBelow(body, n) ==
    {body[k].kind : k \in {k \in n + 1 .. n + HeaderWindow :
        k <= Len(body) /\ \A b \in n + 1 .. k : body[b].kind # "blank"}}

\* _is_forwarded_header_block
IsHeaderBlock(body, n) ==
    \/ \E m \in n - MarkerWindow .. n - 1 : m >= 1 /\ body[m].kind = "marker"
    \/ {"subject", "routing"} \subseteq HeadersBelow(body, n)

\* _forwarded_header_indexes
HeaderIndexes(body) ==
    {n \in 1 .. Len(body) : body[n].kind = "from" /\ IsHeaderBlock(body, n)}

\* Sections end at the next From only if its mailbox can be read.
SectionEndAtReadable(body, n) ==
    LET later == {m \in HeaderIndexes(body) : m > n /\ body[m].sender # Unreadable} IN
    IF later = {} THEN Len(body) ELSE (CHOOSE m \in later : \A k \in later : m <= k) - 1

\* A section ends above the next header block, whether its mailbox can be read or not.
SectionEnd(body, n) ==
    LET later == {m \in HeaderIndexes(body) : m > n} IN
    IF later = {} THEN Len(body) ELSE (CHOOSE m \in later : \A k \in later : m <= k) - 1

\* _signature_website_domains of the message whose section begins below line n; the
\* header lines the code skips there hold no website.
WebsitesBelow(body, n) ==
    {body[k].domain : k \in {k \in n + 1 .. SectionEnd(body, n) : body[k].kind = "website"}}

-----------------------------------------------------------------------------
(* The requester *)

IsExternal(sender) == sender # Unreadable /\ DomainOf[sender] \notin Internal

\* The header blocks of external senders.
ExternalHeaders(body) == {n \in HeaderIndexes(body) : IsExternal(body[n].sender)}

Identity(sender, websites, source, line) ==
    [sender |-> sender, websites |-> websites, source |-> source, line |-> line,
     domain |-> IF DomainOf[sender] \in Generic THEN NoOne ELSE DomainOf[sender]]

NotFound == [sender |-> NoOne, websites |-> {}, source |-> "not_found", line |-> 0,
             domain |-> NoOne]

LastSender(top, body) ==
    IF IsExternal(top)
    THEN Identity(top, WebsitesBelow(body, 0), "top_level_sender", 0)
    ELSE IF ExternalHeaders(body) = {} THEN NotFound
    ELSE LET n == CHOOSE n \in ExternalHeaders(body) : \A m \in ExternalHeaders(body) : m <= n
         IN  Identity(body[n].sender, WebsitesBelow(body, n), "forwarded_sender", n)

\* The sender of the message, or the first forwarded sender, who is external; line is
\* where the sender's header stands (0 is above the body; the code does not keep it).
ExtractRequester(top, body) ==
    IF IsExternal(top)
    THEN Identity(top, WebsitesBelow(body, 0), "top_level_sender", 0)
    ELSE IF ExternalHeaders(body) = {} THEN NotFound
    ELSE LET n == CHOOSE n \in ExternalHeaders(body) : \A m \in ExternalHeaders(body) : n <= m
         IN  Identity(body[n].sender, WebsitesBelow(body, n), "forwarded_sender", n)
=============================================================================
