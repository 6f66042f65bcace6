--------------------------- MODULE PostcodeLabels ---------------------------
(***************************************************************************)
(* The Postcode dropdown: the publication gate, which compares the live    *)
(* schema of the Sales board with the board contract when a process        *)
(* starts, the resolver that finds the label of an area in the settings    *)
(* read with an item, and the check of its id before it is published.      *)
(***************************************************************************)
EXTENDS Naturals, Sequences

CONSTANTS
    LabelNames,  \* names labels may have
    AreaNamed,   \* the area of a name: stripped and in capitals
    Required,    \* required_postcode_labels: the ids of some names
    Foreign,     \* ids outside the contract
    Columns,     \* the columns of the contract: email files, accounts, postcode
    Boards,
    SalesBoard,
    AccountsBoard,
    Unlabelled   \* no label is published

Allowed == {Required[name] : name \in DOMAIN Required}

Ids == Allowed \union Foreign \union {0}   \* 0 is not a usable id

Label == [name : LabelNames, id : Ids]

\* How often a column is there, whether it has the type of the contract, and
\* whether its settings can be read.
Column == [copies : 0 .. 2, typed : BOOLEAN, settings : BOOLEAN]

-----------------------------------------------------------------------------
(* The gate *)

IdsNamed(labels, name) == {labels[k].id : k \in {k \in DOMAIN labels : labels[k].name = name}}

NamesOf(labels, id) == {labels[k].name : k \in {k \in DOMAIN labels : labels[k].id = id}}

LabelsPresent(labels) ==
    \A name \in DOMAIN Required : IdsNamed(labels, name) # {}

\* _validate_postcode_labels: names and ids of the required labels are one to one.
LabelsMatch(labels) ==
    \A name \in DOMAIN Required :
        /\ IdsNamed(labels, name) = {Required[name]}
        /\ NamesOf(labels, Required[name]) = {name}

\* _required_column
ColumnMatches(column) == column.copies = 1 /\ column.typed

\* validate_sales_board_schema; only the relation and the dropdown need settings.
SchemaMatches(schema) ==
    /\ schema.board = SalesBoard
    /\ \A c \in Columns : ColumnMatches(schema.columns[c])
    /\ schema.columns["accounts"].settings /\ schema.targets = {AccountsBoard}
    /\ schema.columns["postcode"].settings /\ LabelsMatch(schema.labels)

\* validate_schema_at_startup: a schema that cannot be read keeps the gate closed.
GateOpens(fetched, schema) == fetched /\ SchemaMatches(schema)

-----------------------------------------------------------------------------
(* resolve_postcode_label *)

\* The labels whose name stands for the area.
Matching(labels, area) ==
    {k \in DOMAIN labels : AreaNamed[labels[k].name] = area /\ labels[k].id > 0}

UsesOf(labels, id) == {k \in DOMAIN labels : labels[k].id = id}

ResolveFirst(labels, area) ==
    IF Matching(labels, area) = {} THEN Unlabelled
    ELSE labels[CHOOSE k \in Matching(labels, area) : \A m \in Matching(labels, area) : k <= m].id

\* The id of the only label of the area, if no other label has that id.
ResolveLabel(labels, area) ==
    IF \E k \in Matching(labels, area) :
          Matching(labels, area) = {k} /\ UsesOf(labels, labels[k].id) = {k}
    THEN labels[CHOOSE k \in Matching(labels, area) : TRUE].id
    ELSE Unlabelled

PublishUnchecked(labels, area) == ResolveLabel(labels, area)

\* _postcode_label_id: a publication with an id outside the contract fails.
PublishLabel(labels, area) ==
    IF ResolveLabel(labels, area) \in Allowed THEN ResolveLabel(labels, area) ELSE Unlabelled
=============================================================================
