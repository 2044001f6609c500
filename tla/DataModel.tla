------------------------------- MODULE DataModel -------------------------------
(***************************************************************************)
(* The model of the data of a DataSource for QML views (datamodel.cpp): a  *)
(* DataModel turns sources, or the items of a list in their data, into     *)
(* rows, tells the views which rows come, go and change, and a             *)
(* SortFilterModel filters them by a role.                                 *)
(*                                                                         *)
(* A view keeps the rows it read when it was told of them; sorting is left *)
(* out.                                                                    *)
(***************************************************************************)
EXTENDS Integers, Sequences, FiniteSetsExt, SequencesExt

CONSTANTS
    LastName,          \* sources are numbers, in the order of their names
    Roles, Values,     \* an item is a function from some roles to values
    Blank,             \* a QVariant that is not valid, shown as nothing
    Contents,          \* what sources say: [item, list, matching], see KeyRoleRows
    NoList,            \* the data have no list under the key
    Filters,           \* sets of values, Blank among them or not: regular expressions,
                       \* strings and callbacks of the filter
    NamesInOrder,      \* sources come in the order of their names
    RolesAtFirst,      \* the first rows have all the roles
    RoleBeforeRows,    \* a filter role is set before there are rows to filter,
    RoleBeforeCallback, \* or, with a callback, before this has rows to filter
    ClearedWhenLeft    \* applications leave sources with data by setConnectedSources

Names == 1..LastName
AllItems == 0                  \* the empty name under which sources are items
DisplayRole == "DisplayRole"   \* the role that no row has a value for

Items == UNION {[known -> Values] : known \in SUBSET Roles}

ASSUME DataModelAssumption ==
    /\ LastName \in Nat
    /\ Blank \notin Values
    /\ {DisplayRole, ""} \intersect Roles = {}
    /\ NoList \notin Seq(Items)
    /\ Contents \subseteq [item : Items, list : Seq(Items) \union {NoList}, matching : Seq(Items)]
    /\ {NamesInOrder, RolesAtFirst, RoleBeforeRows, RoleBeforeCallback, ClearedWhenLeft}
         \subseteq BOOLEAN

Cleared == [item |-> [role \in {} |-> Blank], list |-> NoList, matching |-> <<>>]

VARIABLES
    connected,         \* DataSource::connectedSources
    shown,             \* DataSource::data; the keys of values that were cleared stay
    dataSource,        \* m_dataSource is set
    keyRoleFilter,     \* "", or an expression that is "valid" or "invalid" as one
    sourceFilter,      \* the sources that match
    model              \* [items, roles]: m_items, m_roleIds;
                       \* [view, viewRoles]: the rows and roles that a view has read;
                       \* [proxy, filterRole, roleIds, roleId, filter, callback, accepted]:
                       \* a SortFilterModel with this source model; its filter is a
                       \* callback or not

source == <<connected, shown>>
filters == <<keyRoleFilter, sourceFilter>>
vars == <<source, dataSource, filters, model>>

Init ==
    /\ connected = {} /\ shown = [n \in {} |-> Cleared]
    /\ dataSource = FALSE
    /\ keyRoleFilter = "" /\ sourceFilter = Names
    /\ model = [items |-> [n \in {} |-> <<>>], roles |-> {}, view |-> <<>>, viewRoles |-> {},
                proxy |-> FALSE, filterRole |-> "", roleIds |-> {}, roleId |-> DisplayRole,
                filter |-> Values \union {Blank}, callback |-> FALSE, accepted |-> <<>>]

-----------------------------------------------------------------------------
(* Rows *)

\* m_items.value
ItemsOf(items, name) == IF name \in DOMAIN items THEN items[name] ELSE <<>>

\* The rows before those of each name, in the order of QMap
RowsBefore(items) ==
    LET before[name \in 0..LastName + 1] ==
          IF name = 0 THEN <<>> ELSE before[name - 1] \o ItemsOf(items, name - 1)
    IN  before

\* What data() serves
Rows(items) == RowsBefore(items)[LastName + 1]

Value(row, role) == IF role \in DOMAIN row.item THEN row.item[role] ELSE Blank

\* setItems, removeSource: "at what row number the first item associated to this
\* source starts"; a name that is new has its start behind all the rows.
SourceIndex(items, name) ==
    Len(IF name \in DOMAIN items THEN RowsBefore(items)[name] ELSE Rows(items))

-----------------------------------------------------------------------------
(* SortFilterModel *)

\* roleNameToId: the names that were known when they were synchronized
RoleNameToId(m, role) == IF role \in m.roleIds THEN role ELSE DisplayRole

\* filterAcceptsRow: a callback gets the value of m_filterRole, the proxy itself takes the
\* role that it was told of.
FilteredRole(m) == IF m.callback THEN RoleNameToId(m, m.filterRole) ELSE m.roleId

Accepted(m, rows) == [i \in DOMAIN rows |-> Value(rows[i], FilteredRole(m)) \in m.filter]

\* setFilterRole: the proxy filters again if the role is another one, and m_filterRole is
\* set behind that.
SetFilterRole(m, role) ==
    LET told == [m EXCEPT !.roleId = RoleNameToId(m, role)]
        filtered == IF told.roleId = m.roleId THEN told
                    ELSE [told EXCEPT !.accepted = Accepted(told, Rows(m.items))]
    IN  [filtered EXCEPT !.filterRole = role]

\* Mutant: the role to filter by is not looked up again.
SyncNamesOnly(m) == [m EXCEPT !.roleIds = m.roles]

\* syncRoleNames, and with it the role to filter by
SyncRoleNames(m) == SetFilterRole([m EXCEPT !.roleIds = m.roles], m.filterRole)

\* Rows of the proxy that come or go change its count, and countChanged synchronizes.
Counted(m, changes) == IF m.proxy /\ changes THEN SyncRoleNames(m) ELSE m

\* After "first" rows, those up to "last" are new, are gone, or are other ones.
Spliced(seq, new, first, last) ==
    [i \in 1..Len(seq) + last - first |->
       IF i <= first THEN seq[i] ELSE IF i <= last THEN new[i] ELSE seq[i - (last - first)]]

Cut(seq, first, last) ==
    [i \in 1..Len(seq) - (last - first) |-> IF i <= first THEN seq[i] ELSE seq[i + (last - first)]]

\* The last row that is named may not be there.
Renewed(seq, new, first, last) ==
    [i \in DOMAIN seq |-> IF first < i /\ i <= last /\ i \in DOMAIN new THEN new[i] ELSE seq[i]]

-----------------------------------------------------------------------------
(* The signals of the model, as the view and the proxy take them *)

ModelReset(m) ==
    LET rows == Rows(m.items)
        reset == [m EXCEPT !.view = rows, !.viewRoles = m.roles]
        synced == IF m.proxy THEN SyncRoleNames(reset) ELSE reset
    IN  [synced EXCEPT !.accepted = Accepted(synced, rows)]

RowsInserted(m, first, last) ==
    LET rows == Rows(m.items)
        new == Accepted(m, rows)
    IN  Counted([m EXCEPT !.view = Spliced(@, rows, first, last),
                          !.accepted = Spliced(@, new, first, last)],
                \E i \in first + 1..last : new[i])

RowsRemoved(m, first, last) ==
    Counted([m EXCEPT !.view = Cut(@, first, last), !.accepted = Cut(@, first, last)],
            \E i \in first + 1..last : m.accepted[i])

DataChanged(m, first, last) ==
    LET rows == Rows(m.items)
        new == Renewed(m.accepted, Accepted(m, rows), first, last)
    IN  Counted([m EXCEPT !.view = Renewed(@, rows, first, last), !.accepted = new],
                new # m.accepted)

-----------------------------------------------------------------------------
(* DataModel *)

RolesOf(list) == UNION {DOMAIN list[i].item : i \in DOMAIN list}

\* Mutant: rows that are as many as before are not named as changed.
SetItemsQuiet(m, name, list) ==
    LET oldLength == Len(ItemsOf(m.items, name))
        index == SourceIndex(m.items, name)
        set == [m EXCEPT !.items = [n \in DOMAIN m.items \union {name} |->
                                      IF n = name THEN list ELSE m.items[n]],
                         !.roles = @ \union RolesOf(list)]
    IN  CASE DOMAIN m.items = {} -> ModelReset(set)
          [] DOMAIN m.items # {} /\ Len(list) > oldLength ->
               RowsInserted(set, index + oldLength, index + Len(list))
          [] DOMAIN m.items # {} /\ Len(list) < oldLength ->
               RowsRemoved(set, index + Len(list), index + oldLength)
          [] OTHER -> set

\* Mutant: the reset comes before the roles of the items are known.
SetItemsRolesLast(m, name, list) ==
    LET set == [m EXCEPT !.items = [n \in DOMAIN m.items \union {name} |->
                                      IF n = name THEN list ELSE m.items[n]]]
        signalled == IF DOMAIN m.items = {} THEN ModelReset(set)
                     ELSE SetItemsQuiet(m, name, list)
    IN  [DataChanged(signalled, 0, Len(Rows(set.items))) EXCEPT !.roles = @ \union RolesOf(list)]

\* setItems: the rows at the end come or go, and the others have changed.
SetItems(m, name, list) ==
    LET oldLength == Len(ItemsOf(m.items, name))
        index == SourceIndex(m.items, name)
        least == IF Len(list) < oldLength THEN Len(list) ELSE oldLength
        set == [m EXCEPT !.items = [n \in DOMAIN m.items \union {name} |->
                                      IF n = name THEN list ELSE m.items[n]],
                         !.roles = @ \union RolesOf(list)]
        signalled ==
            CASE DOMAIN m.items = {} -> ModelReset(set)
              [] DOMAIN m.items # {} /\ Len(list) > oldLength ->
                   RowsInserted(set, index + oldLength, index + Len(list))
              [] DOMAIN m.items # {} /\ Len(list) < oldLength ->
                   RowsRemoved(set, index + Len(list), index + oldLength)
              [] OTHER -> set
    IN  DataChanged(signalled, index, index + least + 1)

Row(n, item) == [source |-> n, item |-> item]

\* A row for each of the sources that have data, in the order of their names
SourceRows(all) == Rows([n \in {o \in DOMAIN all \intersect sourceFilter : all[o] # Cleared} |->
                           <<Row(n, all[n].item)>>])

\* The list under the key, or the values of the keys that match the expression
KeyRoleRows(n, d) ==
    LET found == IF d.list # NoList THEN d.list ELSE d.matching
    IN  [i \in DOMAIN found |-> Row(n, found[i])]

\* dataUpdated, with the data there are: an invalid expression leaves the items as they are.
DataUpdated(m, all, n) ==
    CASE n \notin sourceFilter -> m
      [] n \in sourceFilter /\ keyRoleFilter = "" -> SetItems(m, AllItems, SourceRows(all))
      [] n \in sourceFilter /\ keyRoleFilter # "" ->
           IF all[n].list # NoList \/ keyRoleFilter = "valid"
           THEN SetItems(m, n, KeyRoleRows(n, all[n])) ELSE m

\* The first row of the source among the items
RemoveItem(m, n) ==
    LET list == ItemsOf(m.items, AllItems)
        own == {i \in DOMAIN list : list[i].source = n}
        first == Min(own)
    IN  IF own = {} THEN m
        ELSE RowsRemoved([m EXCEPT !.items[AllItems] = Cut(list, first - 1, first)], first - 1, first)

\* Mutant: only a source that is an item goes.
RemoveSourceItem(m, n) == RemoveItem(m, n)

\* removeSource: an item, or the list that has its name
RemoveSource(m, n) ==
    IF keyRoleFilter = "" THEN RemoveItem(m, n)
    ELSE IF n \notin DOMAIN m.items THEN m
         ELSE LET first == SourceIndex(m.items, n)
                  rest == [m EXCEPT !.items = [o \in DOMAIN m.items \ {n} |-> m.items[o]]]
              IN  IF m.items[n] = <<>> THEN rest
                  ELSE RowsRemoved(rest, first, first + Len(m.items[n]))

-----------------------------------------------------------------------------
(* Actions *)

\* The rows that a source has
OwnRows(n, d) ==
    IF keyRoleFilter # "" THEN KeyRoleRows(n, d)
    ELSE IF d = Cleared THEN <<>> ELSE <<Row(n, d.item)>>

\* What the engine and its sources are like, by the constants
Orderly(n, d) ==
    /\ NamesInOrder => \/ keyRoleFilter = "" \/ n \in DOMAIN model.items
                       \/ \A o \in DOMAIN model.items : o < n
    /\ RolesAtFirst => DOMAIN model.items = {} \/ RolesOf(OwnRows(n, d)) \subseteq model.viewRoles

ConnectSource(n) ==
    /\ n \notin connected
    /\ connected' = connected \union {n}
    /\ UNCHANGED <<shown, dataSource, filters, model>>

\* DataSource::dataUpdated tells the model, newData.
NewData(n, d) ==
    /\ n \in connected
    /\ n \in sourceFilter => Orderly(n, d)
    /\ shown' = [o \in DOMAIN shown \union {n} |-> IF o = n THEN d ELSE shown[o]]
    /\ model' = IF dataSource THEN DataUpdated(model, shown', n) ELSE model
    /\ UNCHANGED <<connected, dataSource, filters>>

Clear(n) == shown' = [o \in DOMAIN shown |-> IF o = n THEN Cleared ELSE shown[o]]

ToldRemoved(n) == model' = IF dataSource THEN RemoveSource(model, n) ELSE model

\* setConnectedSources clears the data of a source that is left.
LeaveSource(n) ==
    /\ n \in connected
    /\ connected' = connected \ {n}
    /\ Clear(n)
    /\ ToldRemoved(n)
    /\ UNCHANGED <<dataSource, filters>>

\* disconnectSource does not.
DisconnectSource(n) ==
    /\ n \in connected
    /\ ClearedWhenLeft /\ n \in DOMAIN shown => shown[n] = Cleared
    /\ connected' = connected \ {n}
    /\ UNCHANGED shown
    /\ ToldRemoved(n)
    /\ UNCHANGED <<dataSource, filters>>

\* The engine removes the source: removeSource, sourceDisconnected and sourceRemoved,
\* the second of which finds nothing left.
SourceRemoved(n) ==
    /\ connected' = connected \ {n}
    /\ Clear(n)
    /\ ToldRemoved(n)
    /\ UNCHANGED <<dataSource, filters>>

\* The model when it has read the data up to each name; that QQmlPropertyMap::keys() has
\* them in order is assumed.
DataRead(m, all) ==
    LET read[n \in 0..LastName] ==
          IF n = 0 THEN m
          ELSE IF n \in DOMAIN all THEN DataUpdated(read[n - 1], all, n) ELSE read[n - 1]
    IN  read

\* setDataSource reads the data there are, once; the first of two sources stays.
SetDataSource ==
    /\ ~dataSource
    /\ RolesAtFirst /\ keyRoleFilter # "" =>
         \A n, o \in DOMAIN shown \intersect sourceFilter :
           n < o => RolesOf(OwnRows(o, shown[o])) \subseteq RolesOf(OwnRows(n, shown[n]))
    /\ dataSource' = TRUE
    /\ UNCHANGED <<source, filters>>
    /\ model' = DataRead(model, shown)[LastName]

\* Views set the filters before they have data: what was read is not read again.
SetKeyRoleFilter(key) ==
    /\ ~dataSource
    /\ keyRoleFilter' = key
    /\ UNCHANGED <<source, dataSource, sourceFilter, model>>

SetSourceFilter(matching) ==
    /\ ~dataSource
    /\ sourceFilter' = matching
    /\ UNCHANGED <<source, dataSource, keyRoleFilter, model>>

\* SortFilterModel::setModel
SetModel ==
    /\ ~model.proxy
    /\ model' = LET m == SyncRoleNames([model EXCEPT !.proxy = TRUE])
                IN  [m EXCEPT !.accepted = Accepted(m, Rows(m.items))]
    /\ UNCHANGED <<source, dataSource, filters>>

\* The rows that come or go when a view sets the role change the count, and countChanged
\* sets the former role in the middle of it: of what has changed some is taken back, by the
\* order in which the proxy tells of its rows.
Reentered(m, role) ==
    LET new == SetFilterRole(m, role).accepted
    IN  {[SyncRoleNames(m) EXCEPT !.filterRole = role, !.accepted = left] :
           left \in {a \in [DOMAIN new -> BOOLEAN] :
                      a # new /\ \A i \in DOMAIN new : a[i] \in {new[i], m.accepted[i]}}}

FilterBy(role) ==
    /\ model.filterRole # role
    /\ model.proxy /\ Rows(model.items) # <<>> =>
         IF model.callback THEN ~RoleBeforeCallback ELSE ~RoleBeforeRows
    /\ LET set == SetFilterRole(model, role)
       IN  IF model.proxy /\ set.accepted # model.accepted
           THEN model' \in Reentered(model, role) ELSE model' = set
    /\ UNCHANGED <<source, dataSource, filters>>

\* setFilterCallback, with a function or null; setFilterRegExp and setFilterString, which
\* only filter again while there is a callback
SetFilter(filter, callback) ==
    /\ callback \/ model.callback \/ model.filter # filter
    /\ LET m == [model EXCEPT !.filter = filter, !.callback = callback]
           set == [m EXCEPT !.accepted = Accepted(m, Rows(m.items))]
       IN  model' = Counted(set, set.accepted # model.accepted)
    /\ UNCHANGED <<source, dataSource, filters>>

Next ==
    \/ \E n \in Names :
         \/ ConnectSource(n)
         \/ \E d \in Contents : NewData(n, d)
         \/ LeaveSource(n)
         \/ DisconnectSource(n)
         \/ SourceRemoved(n)
    \/ SetDataSource
    \/ \E key \in {"valid", "invalid"} : SetKeyRoleFilter(key)
    \/ \E matching \in SUBSET Names : SetSourceFilter(matching)
    \/ SetModel
    \/ \E role \in Roles : FilterBy(role)
    \/ \E filter \in Filters, callback \in BOOLEAN : SetFilter(filter, callback)

Spec == Init /\ [][Next]_vars

-----------------------------------------------------------------------------
(* Properties *)

\* A view that reads the rows it is told of shows what the model serves: "signal as
\* inserted the rows at the end, all the other rows will signal a dataupdated"
\* (datamodel.cpp:380).
ViewMatches == model.view = Rows(model.items)

\* Views know every role that an item has: "the first run it gets reset because
\* otherwise setRoleNames gets broken" (datamodel.cpp:382).
RolesShown == \A i \in DOMAIN model.view : DOMAIN model.view[i].item \subseteq model.viewRoles

\* The rows are what the connected sources say now, and nothing else.
RowsAreCurrent ==
    dataSource /\ keyRoleFilter # "invalid" =>
      LET current == {n \in connected \intersect DOMAIN shown \intersect sourceFilter : shown[n] # Cleared}
          items(n) == ItemsOf(model.items, n)
      IN  IF keyRoleFilter = ""
          THEN ToSet(items(AllItems)) = {Row(n, shown[n].item) : n \in current}
          ELSE \A n \in Names : items(n) = IF n \in current THEN KeyRoleRows(n, shown[n]) ELSE <<>>

\* "The role of the sourceModel on which filterRegExp must be applied" (datamodel.h:62):
\* rows are accepted by their value of it, and a callback is given "the value of
\* filterRole as second argument" (datamodel.h:52).
FilterRight ==
    model.proxy /\ model.filterRole # "" =>
      model.accepted = [i \in DOMAIN Rows(model.items) |->
                          Value(Rows(model.items)[i], model.filterRole) \in model.filter]

=============================================================================
