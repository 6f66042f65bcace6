----------------------------- MODULE MCDecisions -----------------------------
(* Small sets of cases for every decision. *)
EXTENDS Decisions, FiniteSets

CONSTANTS a, b, c, street, other, exova, kyte, alice, \* accounts, domains, names, address
          inside, site, mail, p, r, vague              \* hosts, project identities

(* Messages: all bodies of at most four lines. *)
DomainOfHost == [h \in {inside, site, mail} |-> h]
BodyLines == {line \in BodyLine : line.kind = "website" => line.domain # inside}
Bodies == UNION {[1 .. len -> BodyLines] : len \in 0 .. 4}
SomeMessages == [top : {inside, site, Unreadable}, body : Bodies]

(* Questions: three accounts of any of six kinds, up to two domains and names. *)
Kept(domain, name) == [active |-> TRUE, duplicate |-> FALSE, domain |-> domain, name |-> name]
Records == {Kept(d, m) : d \in {street, other}, m \in {exova, kyte}}
           \union {[Kept(street, exova) EXCEPT !.active = FALSE],
                   [Kept(street, kyte) EXCEPT !.duplicate = TRUE]}
Contact(id, accounts, active) ==
    [id |-> id, active |-> active, email |-> alice, accounts |-> accounts]
SomeQuestions ==
    [index : [AccountIds -> Records],
     aliases : {[x \in AccountIds |-> IF x \in owners THEN {street} ELSE {}] :
                  owners \in {{}, {a}, {a, b}, AccountIds}},
     contacts : {{}, {Contact(1, {a}, TRUE)}, {Contact(1, {a, c}, TRUE)},
                 {Contact(1, {b}, TRUE), Contact(2, {b}, TRUE)},
                 {Contact(1, {a}, FALSE), Contact(2, {c}, TRUE)}},
     fallback : BOOLEAN,
     requester : [domain : {street, None}, company : {exova, None}, email : {alice, None},
                  websites : {{}, {other}}]]

(* Enquiries: a file of at most three of these lines, a longer one with a header block, *)
(* or two files. *)
AreaOfPostcode == [x \in {"NW1", "E2"} |-> IF x = "NW1" THEN "NW" ELSE "E"]
Plain == [kind |-> "text", names |-> {}, postcodes |-> {}, field |-> Nothing]
Of(identity) == [Plain EXCEPT !.names = {identity}]
At(identity) == [Of(identity) EXCEPT !.postcodes = {"NW1"}]
InField(identity, area) == [Of(identity) EXCEPT !.field = area]
Street == [Plain EXCEPT !.postcodes = {"NW1"}]
Far == [Plain EXCEPT !.postcodes = {"E2"}]
Kind(kind) == [Plain EXCEPT !.kind = kind]
MailLines == {Of(p), Of(r), At(p), Street, Far, InField(p, "NW"), InField(r, "E"),
              Kind("marker"), Kind("attachment")}
Block == << Of(p), Kind("from"), [Kind("subject") EXCEPT !.names = {r}], Kind("routing") >>
Files == UNION {[1 .. len -> MailLines] : len \in 1 .. 3}
Mails == {<<f>> : f \in Files}
         \union {<<Block \o <<l>>>> : l \in MailLines}
         \union {<<Block \o <<Of(p), l>>>> : l \in MailLines}
         \union {<<<<k, l>>, <<m>>>> : k, l, m \in {Of(p), Street, At(p), Kind("marker")}}
Quotes == {Of(p), At(p), InField(p, "NW")}
Claims(identity, currents, sources) ==
    [identity : {identity}, current : currents, source : sources,
     address : {Street, Far, At(p), InField(p, "NW")}]
Evidences == Claims(Nothing, {Nothing}, {Nothing}) \union Claims(p, Quotes, Quotes)
             \union Claims(p, {Of(r)}, {Of(p)})
             \union Claims(vague, {Of(vague)}, {Of(vague)})
Answers == {[postcode |-> x, evidence |-> e] : x \in {Nothing, "NW"}, e \in {Nothing}}
           \union {x \in [postcode : {"NW1", "E2", "NW", Nothing}, evidence : Evidences] :
                     \/ x.postcode = Nothing \/ IsInAddress(x.postcode, x.evidence.address)
                     \/ x.postcode = "E2" /\ x.evidence.source = Of(p)}
SomeEnquiries == {[mail |-> m, answer |-> x] : m \in Mails, x \in Answers}

(* Failures: answers with one or two errors, and exceptions of the program's own. *)
Errors == {{e} : e \in Error} \union {{e, d} : e, d \in Error}
SomeFailures ==
    [upstream : [http : Statuses, errors : Errors, delays : {{}, {20}, {20, 2000}}],
     explicit : {Unset}, value : {FALSE}]
    \union [upstream : {Unset}, explicit : BOOLEAN \union {Unset}, value : BOOLEAN]

(* Schemas: any dropdown of at most three labels, or the right one with a flaw elsewhere, *)
(* unchanged; or the right one, and any later. *)
AreaOfName == [x \in {"NW", "nw", "E"} |-> IF x = "E" THEN "E" ELSE "NW"]
Contract == [x \in {"NW", "E"} |-> IF x = "NW" THEN 1 ELSE 2]
Fine == [copies |-> 1, typed |-> TRUE, settings |-> TRUE]
Matched == [board |-> SalesBoard, columns |-> [x \in Columns |-> Fine],
            targets |-> {AccountsBoard},
            labels |-> << [name |-> "NW", id |-> 1], [name |-> "E", id |-> 2] >>]
Dropdowns == UNION {[1 .. len -> Label] : len \in 0 .. 3}
Read(fetched, area, schema, labels) ==
    [fetched |-> fetched, area |-> area, schema |-> schema, read |-> labels]
SchemasAtStart ==
    {[Matched EXCEPT !.labels = l] : l \in Dropdowns}
    \union {[Matched EXCEPT !.columns[x] = y] : x \in Columns, y \in Column}
    \union {[Matched EXCEPT !.board = x, !.targets = y] : x \in Boards, y \in SUBSET Boards}
SomeSchemas ==
    {Read(f, x, s, s.labels) : f \in BOOLEAN, x \in {"NW", "E", "SW"}, s \in SchemasAtStart}
    \union {Read(TRUE, x, Matched, l) : x \in {"NW", "E", "SW"}, l \in Dropdowns}
=============================================================================
