-------------------------- MODULE PaginationProofs --------------------------
(***************************************************************************)
(* The walk of module Pagination, for tables of any finite size and any    *)
(* mixture of page sizes: the pages are right because a page is an upper   *)
(* part of what its query selects, and the cursor its lowest row.          *)
(***************************************************************************)
EXTENDS Pagination, FiniteSetTheorems, WellFoundedInduction, TLAPS

USE PaginationAssumption, SMTT(20), Zenon, Z3T(20)

(* Positions in a list: the pairs the queries compare. *)
Positions == [ts : Int, id : Int]

LEMMA PairIsPosition ==
    ASSUME NEW x \in 0..Horizon, NEW y \in Rows
    PROVE  [ts |-> x, id |-> y] \in Positions
BY DEF Positions

LEMMA LessOrders ==
    ASSUME NEW a \in Positions, NEW b \in Positions, NEW c \in Positions
    PROVE  /\ ~Less(a, a)
           /\ Less(a, b) => ~Less(b, a)
           /\ Less(a, b) /\ Less(b, c) => Less(a, c)
           /\ a = b \/ Less(a, b) \/ Less(b, a)
BY DEF Positions, Less

LEMMA KeyOrders ==
    ASSUME TypeOK, NEW r \in Rows, NEW s \in Rows, NEW t \in Rows
    PROVE  /\ Key(r) \in Positions /\ Key(r) # NoCursor /\ Key(r) # Malformed
           /\ ~Less(Key(r), Key(r))
           /\ Less(Key(r), Key(s)) => ~Less(Key(s), Key(r))
           /\ Less(Key(r), Key(s)) /\ Less(Key(s), Key(t)) => Less(Key(r), Key(t))
           /\ r = s \/ Less(Key(r), Key(s)) \/ Less(Key(s), Key(r))
<1>1. created[r] \in Nat /\ created[s] \in Nat /\ created[t] \in Nat
  BY DEF TypeOK
<1>2. r \in Int /\ s \in Int /\ t \in Int
  OBVIOUS
<1> QED BY <1>1, <1>2 DEF Key, Less, Positions, NoCursor, Malformed

(* A collection of subsets of a finite set has a smallest one. *)
LEMMA SmallestSubset ==
    ASSUME NEW S, IsFiniteSet(S), NEW C \in SUBSET (SUBSET S), C # {}
    PROVE  \E A \in C : \A B \in C : B \subseteq A => B = A
<1>1. IsWellFoundedOn(StrictSubsetOrdering(S), FiniteSubsetsOf(S))
  BY FS_StrictSubsetOrderingWellFounded
<1>2. C \subseteq FiniteSubsetsOf(S)
  BY FS_Subset DEF FiniteSubsetsOf
<1>3. PICK A \in C : \A B \in C : ~(<<B, A>> \in StrictSubsetOrdering(S))
  BY <1>1, <1>2, WFMin
<1>4. ASSUME NEW B \in C, B \subseteq A, B # A PROVE FALSE
  BY <1>3, <1>4, Zenon DEF StrictSubsetOrdering
<1> QED BY <1>4

(* The lowest row of a page, and the newest row of a selection. *)
Under(S, r) == {s \in S : Less(Key(s), Key(r))}

LEMMA LowestRow ==
    ASSUME TypeOK, NEW S \in SUBSET Rows, S # {}
    PROVE  \E r \in S : \A s \in S \ {r} : Less(Key(r), Key(s))
<1> DEFINE C == {Under(S, r) : r \in S}
<1>1. IsFiniteSet(S)
  BY FS_Subset
<1>2. C \in SUBSET (SUBSET S) /\ C # {}
  <2>1. PICK x \in S : TRUE
    BY Zenon
  <2>2. Under(S, x) \in C
    OBVIOUS
  <2>3. \A r \in S : Under(S, r) \subseteq S
    BY DEF Under
  <2> QED BY <2>2, <2>3
<1>3. PICK A \in C : \A B \in C : B \subseteq A => B = A
  <2>1. \A D \in SUBSET (SUBSET S) : D # {} => \E A \in D : \A B \in D : B \subseteq A => B = A
    BY <1>1, SmallestSubset, Zenon
  <2> HIDE DEF C
  <2> QED BY <1>2, <2>1
<1>4. PICK r \in S : A = Under(S, r)
  OBVIOUS
<1>5. ASSUME NEW s \in S, Less(Key(s), Key(r)) PROVE FALSE
  <2>1. Under(S, s) \subseteq Under(S, r)
    BY <1>5, KeyOrders, Zenon DEF Under
  <2>2. Under(S, s) \in C
    OBVIOUS
  <2>3. Under(S, s) = Under(S, r)
    BY <1>3, <1>4, <2>1, <2>2
  <2>4. s \in Under(S, r)
    BY <1>5 DEF Under
  <2>5. s \notin Under(S, s)
    BY KeyOrders, Zenon DEF Under
  <2> QED BY <2>3, <2>4, <2>5
<1>6. ASSUME NEW s \in S \ {r} PROVE Less(Key(r), Key(s))
  BY <1>5, <1>6, KeyOrders, Zenon
<1> QED BY <1>6

LEMMA HighestRow ==
    ASSUME TypeOK, NEW S \in SUBSET Rows, NEW U \in SUBSET S, U # {}
    PROVE  \E u \in U : \A s \in S : Less(Key(u), Key(s)) => s \notin U
<1> DEFINE C == {Above(S, r) : r \in U}
<1>1. IsFiniteSet(S)
  BY FS_Subset, Zenon
<1>2. C \in SUBSET (SUBSET S) /\ C # {}
  <2>1. PICK x \in U : TRUE
    BY Zenon
  <2>2. Above(S, x) \in C
    OBVIOUS
  <2>3. \A r \in U : Above(S, r) \subseteq S
    BY DEF Above
  <2> QED BY <2>2, <2>3
<1>3. PICK A \in C : \A B \in C : B \subseteq A => B = A
  <2>1. \A D \in SUBSET (SUBSET S) : D # {} => \E A \in D : \A B \in D : B \subseteq A => B = A
    BY <1>1, SmallestSubset, Zenon
  <2> HIDE DEF C
  <2> QED BY <1>2, <2>1
<1>4. PICK u \in U : A = Above(S, u)
  OBVIOUS
<1>5. ASSUME NEW s \in S, Less(Key(u), Key(s)), s \in U PROVE FALSE
  <2>1. Above(S, s) \subseteq Above(S, u)
    BY <1>5, KeyOrders, Zenon DEF Above
  <2>2. Above(S, s) \in C
    BY <1>5
  <2>3. Above(S, s) = Above(S, u)
    BY <1>3, <1>4, <2>1, <2>2
  <2>4. s \in Above(S, u)
    BY <1>5 DEF Above
  <2>5. s \notin Above(S, s)
    BY KeyOrders DEF Above
  <2> QED BY <2>3, <2>4, <2>5
<1> QED BY <1>5
-----------------------------------------------------------------------------
LEMMA AboveShrinks ==
    ASSUME TypeOK, NEW S \in SUBSET Rows, NEW r \in S, NEW s \in S, Less(Key(r), Key(s))
    PROVE  Cardinality(Above(S, s)) <= Cardinality(Above(S, r))
<1>1. Above(S, s) \in SUBSET Above(S, r)
  BY KeyOrders, Zenon DEF Above
<1>2. IsFiniteSet(Above(S, r))
  BY FS_Subset, Zenon DEF Above
<1> QED BY <1>1, <1>2, FS_Subset

LEMMA AboveIsFinite ==
    ASSUME NEW S \in SUBSET Rows, NEW r
    PROVE  Above(S, r) \in SUBSET S /\ IsFiniteSet(Above(S, r)) /\ Cardinality(Above(S, r)) \in Nat
<1>1. Above(S, r) \in SUBSET S
  BY DEF Above
<1>2. IsFiniteSet(S)
  BY FS_Subset, Zenon
<1>3. IsFiniteSet(Above(S, r))
  BY <1>1, <1>2, FS_Subset
<1> QED BY <1>1, <1>3, FS_CardinalityType

(* LIMIT keeps a row only with every row above it. *)
LEMMA NewestIsUpper ==
    ASSUME TypeOK, NEW S \in SUBSET Rows, NEW n \in Nat,
           NEW r \in Newest(S, n), NEW s \in S, Less(Key(r), Key(s))
    PROVE  s \in Newest(S, n)
<1>1. Cardinality(Above(S, s)) <= Cardinality(Above(S, r))
  BY AboveShrinks DEF Newest
<1>2. Cardinality(Above(S, s)) \in Nat /\ Cardinality(Above(S, r)) \in Nat
  BY AboveIsFinite
<1> QED BY <1>1, <1>2 DEF Newest

(* LIMIT n + 1 that returns n rows or fewer has returned them all. *)
LEMMA ShortIsAll ==
    ASSUME TypeOK, NEW S \in SUBSET Rows, NEW n \in Nat, Cardinality(Newest(S, n + 1)) <= n
    PROVE  Newest(S, n + 1) = S
<1> DEFINE rows == Newest(S, n + 1)
           U == S \ rows
<1>1. rows \in SUBSET S
  BY Zenon DEF Newest
<1>2. SUFFICES ASSUME U # {} PROVE FALSE
  BY <1>1
<1>3. PICK u \in U : \A s \in S : Less(Key(u), Key(s)) => s \notin U
  <2>1. U \in SUBSET S
    OBVIOUS
  <2> HIDE DEF U
  <2> QED BY <1>2, <2>1, HighestRow, Zenon
<1>4. Above(S, u) \in SUBSET rows
  BY <1>3, Zenon DEF Above
<1>5. IsFiniteSet(rows)
  <2>1. IsFiniteSet(S)
    BY FS_Subset, Zenon
  <2> HIDE DEF rows
  <2> QED BY <1>1, <2>1, FS_Subset
<1>6. Cardinality(Above(S, u)) <= Cardinality(rows) /\ Cardinality(rows) \in Nat
  <2> HIDE DEF rows, U
  <2> QED BY <1>4, <1>5, FS_Subset, FS_CardinalityType, Zenon
<1>7. ~(Cardinality(Above(S, u)) < n + 1)
  BY DEF Newest
<1>8. Cardinality(Above(S, u)) \in Nat
  BY AboveIsFinite
<1> QED BY <1>6, <1>7, <1>8

(* No more than n rows: LIMIT n keeps them all. *)
LEMMA FewAreKept ==
    ASSUME TypeOK, NEW S \in SUBSET Rows, NEW n \in Nat, Cardinality(S) <= n
    PROVE  Newest(S, n) = S
<1>1. ASSUME NEW r \in S PROVE Cardinality(Above(S, r)) < n
  <2>1. IsFiniteSet(S)
    BY FS_Subset
  <2>2. r \notin Above(S, r)
    BY KeyOrders DEF Above
  <2>3. Above(S, r) \in SUBSET S
    BY AboveIsFinite
  <2>4. Above(S, r) \in SUBSET (S \ {r})
    BY <2>2, <2>3
  <2>5. IsFiniteSet(S \ {r}) /\ Cardinality(S \ {r}) = Cardinality(S) - 1
    BY <2>1, FS_RemoveElement, Zenon
  <2>6. Cardinality(Above(S, r)) <= Cardinality(S \ {r})
    BY <2>4, <2>5, FS_Subset, Zenon
  <2>7. Cardinality(S) \in Nat /\ Cardinality(Above(S, r)) \in Nat
    BY <2>1, FS_CardinalityType, AboveIsFinite, Zenon
  <2> QED BY <2>5, <2>6, <2>7
<1> QED BY <1>1, Zenon DEF Newest

(* A page that is not empty has a row when anything is selected. *)
LEMMA NewestNotEmpty ==
    ASSUME TypeOK, NEW S \in SUBSET Rows, S # {}, NEW n \in Nat \ {0}
    PROVE  Newest(S, n) # {}
<1>1. PICK u \in S : \A s \in S : Less(Key(u), Key(s)) => s \notin S
  BY HighestRow
<1>2. Above(S, u) = {}
  BY <1>1, Zenon DEF Above
<1>3. Cardinality(Above(S, u)) = 0
  BY <1>2, FS_EmptySet
<1> QED BY <1>3 DEF Newest

(* What Page::from_rows makes of the rows of a query: the page is an upper *)
(* part of the selection S, and next_cursor is absent exactly when it is   *)
(* all of S, and else the key of the lowest row of the page.               *)
LEMMA PageOf ==
    ASSUME TypeOK, NEW S \in SUBSET Rows, NEW n \in 1..MaxLimit
    PROVE  LET page == Select(S, n) IN
           /\ page.items \in SUBSET S
           /\ page.next_cursor = NoCursor => page.items = S
           /\ page.next_cursor # NoCursor =>
                 \E l \in page.items :
                    /\ page.next_cursor = Key(l)
                    /\ \A s \in page.items : ~Less(Key(s), Key(l))
                    /\ \A s \in S \ page.items : Less(Key(s), Key(l))
<1> DEFINE rows == Newest(S, n + 1)
           items == Newest(rows, n)
           page == Select(S, n)
<1>1. n \in Nat \ {0} /\ clamp_limit(n) = n
  BY DEF clamp_limit
<1>2. /\ page.items = items
      /\ page.next_cursor = IF Cardinality(rows) > n THEN Key(Last(items)) ELSE NoCursor
  BY <1>1, Zenon DEF Select, from_rows
<1>3. rows \in SUBSET S /\ items \in SUBSET rows
  BY DEF Newest
<1>4. IsFiniteSet(rows) /\ Cardinality(rows) \in Nat
  <2> HIDE DEF rows
  <2>1. rows \in SUBSET Rows
    BY <1>3, Zenon
  <2> QED BY <2>1, FS_Subset, FS_CardinalityType, Zenon
<1>5. CASE ~(Cardinality(rows) > n)
  <2>0. Cardinality(Newest(S, n + 1)) <= n
    BY <1>4, <1>5
  <2>1. rows = S
    BY <1>1, <2>0, ShortIsAll
  <2>2. Cardinality(S) <= n
    BY <1>4, <1>5, <2>1
  <2>3. items = S
    BY <1>1, <2>1, <2>2, FewAreKept, Zenon
  <2>4. page.next_cursor = NoCursor
    BY <1>2, <1>5, Zenon
  <2> HIDE DEF items
  <2> QED BY <1>2, <2>3, <2>4
<1>6. CASE Cardinality(rows) > n
  <2>1. rows # {}
    BY <1>1, <1>4, <1>6, FS_EmptySet
  <2>2. items # {} /\ items \in SUBSET Rows /\ rows \in SUBSET Rows
    <3>1. rows \in SUBSET Rows
      BY <1>3, Zenon
    <3> HIDE DEF rows
    <3> QED BY <1>1, <1>3, <2>1, <3>1, NewestNotEmpty, Zenon
  <2> DEFINE l == Last(items)
  <2>3. l \in items /\ \A s \in items \ {l} : Less(Key(l), Key(s))
    <3>1. \E r \in items : \A s \in items \ {r} : Less(Key(r), Key(s))
      <4> HIDE DEF items
      <4> QED BY <2>2, LowestRow
    <3> HIDE DEF items
    <3> QED BY <3>1 DEF Last
  <2> HIDE DEF l
  <2>4. \A s \in items : ~Less(Key(s), Key(l))
    <3> HIDE DEF items
    <3> QED BY <2>2, <2>3, KeyOrders, Zenon
  <2>5. ASSUME NEW s \in S \ items PROVE Less(Key(s), Key(l))
    <3>1. l \in Newest(S, n + 1) /\ l \in Newest(rows, n) /\ s # l /\ l \in Rows /\ s \in Rows /\ l \in S
      BY <1>3, <2>2, <2>3, Zenon
    <3>2. CASE Less(Key(l), Key(s))
      <4>1. s \in rows
        BY <1>1, <3>1, <3>2, NewestIsUpper
      <4>2. s \in Newest(rows, n)
        <5> HIDE DEF rows
        <5> QED BY <1>1, <2>2, <3>1, <3>2, <4>1, NewestIsUpper, Zenon
      <4> QED BY <4>2, Zenon
    <3> QED BY <3>1, <3>2, KeyOrders, Zenon
  <2>6. Key(l) # NoCursor
    BY <2>2, <2>3, KeyOrders, Zenon
  <2>7. page.next_cursor = Key(l)
    BY <1>2, <1>6, Zenon DEF l
  <2> HIDE DEF items, rows
  <2> QED BY <1>2, <1>3, <2>3, <2>4, <2>5, <2>6, <2>7, Zenon
<1> QED BY <1>4, <1>5, <1>6
-----------------------------------------------------------------------------
(* What the next query selects. *)
Selected == {r \in There : InScope(r, scope) /\ (cursor = NoCursor \/ Less(Key(r), cursor))}

(* The rows shown so far are at or above the cursor, and those still to be *)
(* shown below it; a row keeps its place once it has been seen.            *)
Progress ==
    /\ pc = "idle" => returned = {} /\ stay = {}
    /\ \A r \in returned : row[r] \in {"there", "gone"}
    /\ \A r \in stay : row[r] = "there" /\ InScope(r, scope)
    /\ pc = "walk" => /\ \A r \in returned : cursor # NoCursor /\ ~Less(Key(r), cursor)
                      /\ \A r \in stay \ returned : cursor = NoCursor \/ Less(Key(r), cursor)

IInv == TypeOK /\ Progress /\ NoRowTwice /\ NoRowMissed /\ OnlyOwnRows

LEMMA InitIInv == Init => IInv
<1> SUFFICES ASSUME Init PROVE IInv
  OBVIOUS
<1>1. owner \in [Rows -> Owners \cup TenantStatus \cup {None}]
  BY DEF Init, TenantStatus
<1>2. TypeOK
  BY <1>1 DEF Init, TypeOK, Tables, Cursors
<1> QED BY <1>2, Zenon DEF Init, IInv, Progress, NoRowTwice, NoRowMissed, OnlyOwnRows

(* Each list handler that does not refuse sends the page of one selection: *)
(* the two branches of its query are one and the same.                     *)
LEMMA FetchIsPage ==
    ASSUME NEW n \in Limits, Fetch(n)
    PROVE  Refused(n) \/ (n \in 1..MaxLimit /\ Page(Select(Selected, n)))
<1>0. Accepted(n) => n \in 1..MaxLimit
  BY Zenon DEF Accepted, validate_limit
<1>1. CASE list_tenants(n)
  <2>1. table = "tenants"
    BY <1>1, Zenon DEF list_tenants
  <2>2. {r \in There : (scope = None \/ owner[r] = scope) /\ (cursor = NoCursor \/ Less(Key(r), cursor))} = Selected
    BY <2>1, Zenon DEF Selected, InScope
  <2>3. tenants_list(scope, cursor, n) = Select(Selected, n)
    BY <2>2 DEF tenants_list
  <2> QED BY <1>0, <1>1, <2>3 DEF list_tenants
<1> DEFINE Q(o) == IF cursor # NoCursor THEN Select(Before(Of(o), cursor), n) ELSE Select(Of(o), n)
<1>2. ASSUME table # "tenants" PROVE Q(scope) = Select(Selected, n)
  <2>1. Of(scope) = {r \in There : InScope(r, scope)}
    BY <1>2 DEF Of, InScope
  <2>2. CASE cursor # NoCursor
    <3>1. Before(Of(scope), cursor) = Selected
      BY <2>1, <2>2, Zenon DEF Before, Selected
    <3> QED BY <2>2, <3>1
  <2>3. CASE cursor = NoCursor
    <3>1. Of(scope) = Selected
      BY <2>1, <2>3 DEF Selected
    <3> QED BY <2>3, <3>1
  <2> QED BY <2>2, <2>3, Zenon
<1>3. CASE list_service_accounts(n)
  BY <1>0, <1>2, <1>3, Zenon DEF list_service_accounts, accounts_list_by_tenant
<1>4. CASE list_keys(n)
  BY <1>0, <1>2, <1>4, Zenon DEF list_keys, keys_list_by_service_account
<1>5. CASE list_policies(n)
  BY <1>0, <1>2, <1>5, Zenon DEF list_policies, policies_list_by_tenant
<1>6. CASE list_routes(n)
  <2>1. CASE Refused(n)
    BY <2>1, Zenon
  <2>2. CASE Accepted(n) /\ Page(routes_list_by_tenant(scope, cursor, n))
    BY <1>0, <1>2, <1>6, <2>2, Zenon DEF list_routes, routes_list_by_tenant
  <2>3. CASE scope = None /\ Accepted(n) /\ Page(routes_list_global(cursor, n))
    BY <1>0, <1>2, <1>6, <2>3, Zenon DEF list_routes, routes_list_global
  <2> QED BY <1>6, <2>1, <2>2, <2>3, Zenon DEF list_routes
<1> QED BY <1>1, <1>3, <1>4, <1>5, <1>6 DEF Fetch

(* The page itself: nothing on it was shown before, and what it leaves out *)
(* is below the new cursor.                                                *)
LEMMA PageKeeps ==
    ASSUME IInv, pc = "walk", NEW n \in 1..MaxLimit, Page(Select(Selected, n))
    PROVE  IInv'
<1> DEFINE page == Select(Selected, n)
<1> USE DEF IInv
<1>0. TypeOK /\ UNCHANGED world /\ UNCHANGED <<scope, stay>>
  BY Zenon DEF Page
<1>1. Selected \in SUBSET Rows
  BY DEF Selected, There
<1>2. /\ page.items \in SUBSET Selected
      /\ page.next_cursor = NoCursor => page.items = Selected
      /\ page.next_cursor # NoCursor =>
            \E l \in page.items :
               /\ page.next_cursor = Key(l)
               /\ \A s \in page.items : ~Less(Key(s), Key(l))
               /\ \A s \in Selected \ page.items : Less(Key(s), Key(l))
  <2> HIDE DEF IInv
  <2> QED BY <1>0, <1>1, PageOf, Zenon
<1>3. /\ returned' = returned \cup page.items
      /\ repeated' = repeated \cup (page.items \cap returned)
      /\ cursor' = page.next_cursor
      /\ pc' = IF page.next_cursor = NoCursor THEN "done" ELSE "walk"
  BY Zenon DEF Page
<1> HIDE DEF page
<1>4. /\ \A r : Key(r)' = Key(r) /\ (InScope(r, scope))' = InScope(r, scope)
      /\ stay' = stay /\ row' = row /\ created' = created /\ owner' = owner /\ table' = table /\ scope' = scope
  BY <1>0, Zenon DEF Key, InScope, world
<1>5. \A r \in Selected : row[r] = "there" /\ InScope(r, scope) /\ (cursor = NoCursor \/ Less(Key(r), cursor))
  BY Zenon DEF Selected, There
<1>6. cursor \in Positions
  <2>1. cursor = NoCursor \/ cursor = Malformed \/ cursor \in [ts : 0..Horizon, id : Rows]
    BY <1>0, Zenon DEF TypeOK, Cursors
  <2>2. NoCursor \in Positions /\ Malformed \in Positions
    BY DEF Positions, NoCursor, Malformed
  <2>3. ASSUME cursor \in [ts : 0..Horizon, id : Rows] PROVE cursor \in Positions
    <3>1. PICK x \in 0..Horizon, y \in Rows : cursor = [ts |-> x, id |-> y]
      BY <2>3, Zenon
    <3> QED BY <3>1, PairIsPosition, Zenon
  <2> QED BY <2>1, <2>2, <2>3
<1>7. TypeOK'
  <2>1. page.next_cursor \in Cursors
    <3>1. \A r \in Rows : Key(r) \in Cursors
      BY <1>0, Zenon DEF TypeOK, Key, Cursors
    <3> QED BY <1>1, <1>2, <3>1, Zenon DEF Cursors
  <2>2. returned' \subseteq Rows /\ repeated' \subseteq Rows
    BY <1>0, <1>1, <1>2, <1>3, Zenon DEF TypeOK
  <2> QED BY <1>0, <1>3, <1>4, <2>1, <2>2, Zenon DEF TypeOK, Cursors, world
<1>8. NoRowTwice'
  <2>1. page.items \cap returned = {}
    BY <1>2, <1>5, Zenon DEF Progress
  <2> QED BY <1>3, <2>1, Zenon DEF NoRowTwice
<1>9. OnlyOwnRows'
  <2>1. \A r \in returned' : \/ InScope(r, scope)
                             \/ table = "tenants" /\ scope = "active" /\ owner[r] = "deleted"
    BY <1>2, <1>3, <1>5, Zenon DEF OnlyOwnRows
  <2> QED BY <1>4, <2>1, Zenon DEF OnlyOwnRows, InScope
<1>10. \A r \in stay \ returned : r \in Selected
  BY <1>0, Zenon DEF Progress, Selected, There, TypeOK
<1>11. \A r \in returned' : row[r] \in {"there", "gone"}
  BY <1>2, <1>3, <1>5, Zenon DEF Progress
<1>12. CASE page.next_cursor = NoCursor
  <2>1. stay \subseteq returned'
    BY <1>2, <1>3, <1>10, <1>12, Zenon
  <2>2. Progress'
    BY <1>3, <1>4, <1>11, <1>12, Zenon DEF Progress, InScope
  <2> QED BY <1>4, <1>7, <1>8, <1>9, <2>1, <2>2, Zenon DEF NoRowMissed
<1>13. CASE page.next_cursor # NoCursor
  <2>1. PICK l \in page.items : /\ cursor' = Key(l)
                                /\ \A s \in page.items : ~Less(Key(s), Key(l))
                                /\ \A s \in Selected \ page.items : Less(Key(s), Key(l))
    BY <1>2, <1>3, <1>13, Zenon
  <2>2. l \in Rows /\ Key(l) # NoCursor /\ Key(l) \in Positions
    BY <1>0, <1>1, <1>2, KeyOrders, Zenon
  <2>3. ASSUME NEW r \in returned PROVE ~Less(Key(r), Key(l))
    <3>1. cursor # NoCursor /\ ~Less(Key(r), cursor)
      BY Zenon DEF Progress
    <3>2. Less(Key(l), cursor)
      BY <1>2, <1>5, <3>1, Zenon
    <3>3. r \in Rows /\ Key(r) \in Positions
      BY <1>0, KeyOrders, Zenon DEF TypeOK
    <3> QED BY <1>6, <2>2, <3>1, <3>2, <3>3, LessOrders, Zenon
  <2>4. \A r \in stay \ returned' : Less(Key(r), Key(l))
    BY <1>3, <1>10, <2>1, Zenon
  <2>5. \A r \in returned' : ~Less(Key(r), Key(l))
    BY <1>3, <2>1, <2>3, Zenon
  <2>6. pc' = "walk"
    BY <1>3, <1>13, Zenon
  <2>7. Progress'
    BY <1>4, <1>11, <2>1, <2>2, <2>4, <2>5, <2>6, Zenon DEF Progress
  <2> QED BY <1>7, <1>8, <1>9, <2>6, <2>7, Zenon DEF NoRowMissed
<1> QED BY <1>12, <1>13, Zenon

LEMMA NextIInv == IInv /\ [Next]_vars => IInv'
<1> SUFFICES ASSUME IInv, [Next]_vars PROVE IInv'
  BY Zenon
<1> USE DEF IInv
<1>1. ASSUME NEW r \in Rows, BeginInsert(r) PROVE IInv'
  <2>1. TypeOK'
    BY <1>1, Zenon DEF BeginInsert, TypeOK, walk, Cursors
  <2>2. r \notin returned /\ r \notin stay
    BY <1>1, Zenon DEF BeginInsert, Progress
  <2>3. \A s \in Rows \ {r} : Key(s)' = Key(s) /\ row'[s] = row[s]
    BY <1>1, Zenon DEF BeginInsert, Key, TypeOK
  <2>4. returned' = returned /\ stay' = stay /\ pc' = pc /\ cursor' = cursor /\ scope' = scope
        /\ owner' = owner /\ table' = table /\ repeated' = repeated
    BY <1>1, Zenon DEF BeginInsert, walk
  <2>5. Progress'
    BY <2>2, <2>3, <2>4, Zenon DEF Progress, TypeOK, InScope
  <2> QED BY <2>1, <2>4, <2>5, Zenon DEF NoRowTwice, NoRowMissed, OnlyOwnRows, InScope
<1>2. ASSUME NEW r \in Rows, Commit(r) PROVE IInv'
  <2>1. TypeOK'
    BY <1>2, Zenon DEF Commit, TypeOK, walk, Cursors
  <2>2. Progress'
    BY <1>2, Zenon DEF Commit, Progress, TypeOK, walk, InScope, Key
  <2> QED BY <1>2, <2>1, <2>2, Zenon DEF Commit, walk, NoRowTwice, NoRowMissed, OnlyOwnRows, InScope
<1>3. ASSUME NEW r \in Rows, Delete(r) PROVE IInv'
  <2>1. TypeOK'
    BY <1>3, Zenon DEF Delete, TypeOK, walk, Cursors
  <2>2. Progress'
    BY <1>3, Zenon DEF Delete, Progress, TypeOK, walk, InScope, Key
  <2> QED BY <1>3, <2>1, <2>2, Zenon DEF Delete, walk, NoRowTwice, NoRowMissed, OnlyOwnRows, InScope
<1>4. ASSUME NEW r \in Rows, SoftDelete(r) PROVE IInv'
  <2>1. TypeOK'
    BY <1>4, Zenon DEF SoftDelete, TypeOK, walk, Cursors, TenantStatus
  <2>2. Progress'
    BY <1>4, Zenon DEF SoftDelete, Progress, TypeOK, walk, InScope, Key
  <2> QED BY <1>4, <2>1, <2>2, Zenon DEF SoftDelete, walk, NoRowTwice, NoRowMissed, OnlyOwnRows, InScope, TypeOK
<1>5. ASSUME Tick PROVE IInv'
  <2>1. TypeOK'
    BY <1>5 DEF Tick, TypeOK, walk, Cursors
  <2>2. Progress'
    BY <1>5, Zenon DEF Tick, Progress, walk, InScope, Key
  <2> QED BY <1>5, <2>1, <2>2, Zenon DEF Tick, walk, NoRowTwice, NoRowMissed, OnlyOwnRows, InScope
<1>6. ASSUME NEW s \in Scopes, NEW c \in Cursors, Begin(s, c) PROVE IInv'
  <2>1. TypeOK'
    BY <1>6, Zenon DEF Begin, TypeOK, world, Cursors, There
  <2>2. returned = {} /\ returned' = {} /\ repeated' = repeated /\ pc' = "walk"
    BY <1>6, Zenon DEF Begin, Progress
  <2>3. Progress'
    BY <1>6, <2>2, Zenon DEF Begin, Progress, world, There, InScope, Key
  <2> QED BY <2>1, <2>2, <2>3, Zenon DEF NoRowTwice, NoRowMissed, OnlyOwnRows
<1>7. ASSUME NEW n \in Limits, Fetch(n) PROVE IInv'
  <2>1. pc = "walk"
    BY <1>7, Zenon DEF Fetch
  <2>2. CASE Refused(n)
    <3>1. TypeOK'
      BY <2>2, Zenon DEF Refused, TypeOK, world, Cursors
    <3>2. Progress'
      BY <2>1, <2>2, Zenon DEF Refused, Progress, world, InScope, Key
    <3> QED BY <2>2, <3>1, <3>2, Zenon DEF Refused, world, NoRowTwice, NoRowMissed, OnlyOwnRows, InScope
  <2>3. CASE n \in 1..MaxLimit /\ Page(Select(Selected, n))
    <3> HIDE DEF IInv
    <3> QED BY <2>1, <2>3, PageKeeps, Zenon
  <2> QED BY <1>7, <2>2, <2>3, FetchIsPage, Zenon
<1>8. ASSUME UNCHANGED vars PROVE IInv'
  <2>1. TypeOK'
    BY <1>8, Zenon DEF vars, TypeOK, Cursors
  <2>2. Progress'
    BY <1>8, Zenon DEF vars, Progress, InScope, Key
  <2> QED BY <1>8, <2>1, <2>2, Zenon DEF vars, NoRowTwice, NoRowMissed, OnlyOwnRows, InScope
<1> HIDE DEF IInv
<1> QED BY <1>1, <1>2, <1>3, <1>4, <1>5, <1>6, <1>7, <1>8, Zenon DEF Next, FetchAny

THEOREM Invariance == Spec => []IInv
<1> QED BY InitIInv, NextIInv, PTL DEF Spec

(* The walk's state keeps its type in every behaviour. *)
THEOREM TypeCorrect == Spec => []TypeOK
<1>1. IInv => TypeOK
  BY Zenon DEF IInv
<1> QED BY <1>1, Invariance, PTL

(* No row is on two pages of a walk, for tables of any finite size and     *)
(* whatever page sizes the list endpoints are asked for.                   *)
THEOREM NothingTwice == Spec => []NoRowTwice
<1>1. IInv => NoRowTwice
  BY Zenon DEF IInv
<1> QED BY <1>1, Invariance, PTL

(* A walk that comes to its end has shown every row that was there all the *)
(* while: Page::from_rows drops next_cursor only when nothing is left.     *)
THEOREM NothingMissed == Spec => []NoRowMissed
<1>1. IInv => NoRowMissed
  BY Zenon DEF IInv
<1> QED BY <1>1, Invariance, PTL

(* No list query lets a row of another tenant, service account or status   *)
(* through, with or without a cursor.                                      *)
THEOREM NothingForeign == Spec => []OnlyOwnRows
<1>1. IInv => OnlyOwnRows
  BY Zenon DEF IInv
<1> QED BY <1>1, Invariance, PTL
=============================================================================
