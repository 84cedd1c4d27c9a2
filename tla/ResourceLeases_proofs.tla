----------------------- MODULE ResourceLeases_proofs -----------------------
(***************************************************************************)
(* Proofs about ResourceLeases for every set of resources, actors and      *)
(* status words, every lease length and every length of the histories.     *)
(***************************************************************************)
EXTENDS ResourceLeases, SequenceTheorems, TLAPS

\* A history of one resource.  A row marked as run out has run out: without it
\* a heartbeat could turn an old row live by giving it another status.
HistoryInv(rows) ==
  /\ rows \in Seq(Rows)
  /\ \A i \in 1 .. Len(rows) : rows[i].status = "expired" => rows[i].left = 0
  /\ \A i \in 1 .. Len(rows) : Live(rows[i]) => i = Len(rows)

LeasesInv == /\ leases = [r \in Resources |-> leases[r]]
             /\ \A r \in Resources : HistoryInv(leases[r])
             /\ drawn \in Nat

\* The properties of the run follow from it.
LEMMA LeasesInvImplies == LeasesInv => LeasesTypeOK /\ OnlyNewestIsLive
<1> SUFFICES ASSUME LeasesInv PROVE LeasesTypeOK /\ OnlyNewestIsLive
  OBVIOUS
<1>1. ASSUME NEW r \in Resources
      PROVE  leases[r] \in Seq(Rows) /\ DOMAIN leases[r] = 1 .. Len(leases[r])
  <2>1. HistoryInv(leases[r])
    BY DEF LeasesInv
  <2>2. leases[r] \in Seq(Rows)
    BY <2>1 DEF HistoryInv
  <2> QED
    BY <2>2
<1>2. LeasesTypeOK
  BY <1>1 DEF LeasesTypeOK, LeasesInv
<1>3. OnlyNewestIsLive
  BY <1>1 DEF OnlyNewestIsLive, LeasesInv, HistoryInv
<1> QED
  BY <1>2, <1>3

-----------------------------------------------------------------------------
(* Histories *)

\* The current row of a history is its newest row, if that is live.
LEMMA CurrentIsNewest ==
  ASSUME NEW rows, HistoryInv(rows), NEW i
  PROVE  IsCurrent(rows, i) <=> i = Len(rows) /\ rows # << >> /\ Live(rows[i])
<1>1. rows \in Seq(Rows)
  BY DEF HistoryInv
<1>2. \A j \in 1 .. Len(rows) : Live(rows[j]) => j = Len(rows)
  BY DEF HistoryInv
<1>3. DOMAIN rows = 1 .. Len(rows) /\ Len(rows) \in Nat
  BY <1>1
<1>4. Len(rows) = 0 <=> rows = << >>
  BY <1>1, EmptySeq
<1>5. ASSUME IsCurrent(rows, i)
      PROVE  i = Len(rows) /\ rows # << >> /\ Live(rows[i])
  <2>1. i \in 1 .. Len(rows) /\ Live(rows[i])
    BY <1>3, <1>5 DEF IsCurrent
  <2>2. i = Len(rows)
    BY <1>2, <2>1
  <2>3. rows # << >>
    BY <1>3, <1>4, <2>1
  <2> QED
    BY <2>1, <2>2, <2>3
<1>6. ASSUME i = Len(rows), rows # << >>, Live(rows[i])
      PROVE  IsCurrent(rows, i)
  <2>1. i \in DOMAIN rows
    BY <1>3, <1>4, <1>6
  <2>2. \A j \in DOMAIN rows : j <= i
    BY <1>3, <1>6
  <2> QED
    BY <1>6, <2>1, <2>2 DEF IsCurrent
<1> QED
  BY <1>5, <1>6

\* Nothing is live in a history without a current row.
LEMMA NoneCurrent ==
  ASSUME NEW rows, HistoryInv(rows), \A i \in DOMAIN rows : ~IsCurrent(rows, i)
  PROVE  \A i \in 1 .. Len(rows) : ~Live(rows[i])
<1> SUFFICES ASSUME NEW i \in 1 .. Len(rows), Live(rows[i]) PROVE FALSE
  OBVIOUS
<1>1. DOMAIN rows = 1 .. Len(rows) /\ Len(rows) \in Nat
  BY DEF HistoryInv
<1>2. i = Len(rows)
  BY DEF HistoryInv
<1>3. \A j \in DOMAIN rows : j <= i
  BY <1>1, <1>2
<1>4. IsCurrent(rows, i)
  BY <1>1, <1>3 DEF IsCurrent
<1> QED
  BY <1>1, <1>4

\* Replacing one row keeps the invariant when the new row is live only in the
\* newest place.
LEMMA ReplacedRow ==
  ASSUME NEW rows, HistoryInv(rows), NEW i \in DOMAIN rows, NEW row \in Rows,
         row.status = "expired" => row.left = 0,
         Live(row) => i = Len(rows)
  PROVE  /\ HistoryInv([rows EXCEPT ![i] = row])
         /\ Len([rows EXCEPT ![i] = row]) = Len(rows)
         /\ [rows EXCEPT ![i] = row][i] = row
         /\ \A j \in 1 .. Len(rows) : j # i => [rows EXCEPT ![i] = row][j] = rows[j]
<1> DEFINE new == [rows EXCEPT ![i] = row]
<1>1. rows \in Seq(Rows) /\ DOMAIN rows = 1 .. Len(rows)
  BY DEF HistoryInv
<1>2. /\ new \in Seq(Rows)
      /\ Len(new) = Len(rows)
      /\ \A j \in 1 .. Len(rows) : new[j] = IF j = i THEN row ELSE rows[j]
  BY <1>1
<1>3. \A j \in 1 .. Len(rows) : /\ rows[j].status = "expired" => rows[j].left = 0
                                /\ Live(rows[j]) => j = Len(rows)
  BY DEF HistoryInv
<1> HIDE DEF new
<1>4. HistoryInv(new)
  BY <1>2, <1>3 DEF HistoryInv
<1> QED
  BY <1>1, <1>2, <1>4 DEF new

\* A row added to a history without live rows.
LEMMA AppendedRow ==
  ASSUME NEW rows, HistoryInv(rows), \A i \in 1 .. Len(rows) : ~Live(rows[i]),
         NEW row \in Rows, row.status # "expired"
  PROVE  /\ HistoryInv(Append(rows, row))
         /\ Len(Append(rows, row)) = Len(rows) + 1
         /\ Append(rows, row)[Len(rows) + 1] = row
         /\ \A i \in 1 .. Len(rows) : Append(rows, row)[i] = rows[i]
<1>1. rows \in Seq(Rows) /\ Len(rows) \in Nat
  BY DEF HistoryInv
<1>2. /\ Append(rows, row) \in Seq(Rows)
      /\ Len(Append(rows, row)) = Len(rows) + 1
      /\ Append(rows, row)[Len(rows) + 1] = row
      /\ \A i \in 1 .. Len(rows) : Append(rows, row)[i] = rows[i]
  BY <1>1, AppendProperties
<1>3. \A j \in 1 .. Len(rows) : rows[j].status = "expired" => rows[j].left = 0
  BY DEF HistoryInv
<1> DEFINE new == Append(rows, row)
<1> HIDE DEF new
<1>4. ASSUME NEW i \in 1 .. Len(rows) + 1
      PROVE  /\ new[i].status = "expired" => new[i].left = 0
             /\ Live(new[i]) => i = Len(rows) + 1
  <2>1. CASE i = Len(rows) + 1
    BY <1>2, <2>1 DEF new
  <2>2. CASE i \in 1 .. Len(rows)
    BY <1>2, <1>3, <2>2 DEF new
  <2> QED
    BY <1>1, <2>1, <2>2
<1>5. HistoryInv(new)
  BY <1>2, <1>4 DEF HistoryInv, new
<1> QED
  BY <1>2, <1>5 DEF new

\* Marking the newest row, which is not live, leaves nothing live.
LEMMA MarkedRows ==
  ASSUME NEW old, HistoryInv(old), \A i \in 1 .. Len(old) : ~Live(old[i]),
         NEW rows \in MaybeMarked(old)
  PROVE  HistoryInv(rows) /\ Len(rows) = Len(old) /\ \A i \in 1 .. Len(rows) : ~Live(rows[i])
<1> DEFINE n == Len(old)
           row == [old[n] EXCEPT !.status = "expired"]
<1>1. old \in Seq(Rows) /\ n \in Nat /\ DOMAIN old = 1 .. n
  BY DEF HistoryInv
<1>2. CASE rows = old
  BY <1>2
<1>3. CASE old # << >> /\ ~old[n].released /\ rows = [old EXCEPT ![n].status = "expired"]
  <2>1. n \in DOMAIN old /\ old[n] \in Rows
    BY <1>1, <1>3
  <2>2. rows = [old EXCEPT ![n] = row]
    BY <1>3
  <2>3. row \in Rows /\ row.status = "expired" /\ row.left = old[n].left
    BY <2>1 DEF Rows
  <2>4. old[n].left = 0
    <3>1. ~Live(old[n]) /\ (old[n].status = "expired" => old[n].left = 0)
      BY <1>1, <2>1 DEF HistoryInv
    <3>2. old[n].left \in 0 .. MaxLease
      BY <2>1 DEF Rows
    <3> QED
      BY <1>3, <3>1, <3>2, ResourceLeasesAssumption DEF Live
  <2>5. ~Live(row)
    BY <2>3 DEF Live
  <2> HIDE DEF row
  <2>6. /\ HistoryInv(rows)
        /\ Len(rows) = n
        /\ rows[n] = row
        /\ \A j \in 1 .. n : j # n => rows[j] = old[j]
    <3>1. row.status = "expired" => row.left = 0
      BY <2>3, <2>4
    <3>2. Live(row) => n = Len(old)
      OBVIOUS
    <3>3. /\ HistoryInv([old EXCEPT ![n] = row])
          /\ Len([old EXCEPT ![n] = row]) = Len(old)
          /\ [old EXCEPT ![n] = row][n] = row
          /\ \A j \in 1 .. Len(old) : j # n => [old EXCEPT ![n] = row][j] = old[j]
      BY <2>1, <2>3, <3>1, <3>2, ReplacedRow
    <3> QED
      BY <2>2, <3>3
  <2>7. \A i \in 1 .. Len(rows) : ~Live(rows[i])
    BY <2>5, <2>6
  <2> QED
    BY <2>6, <2>7
<1> QED
  BY <1>2, <1>3 DEF MaybeMarked

\* A history whose newest row, its top, is live; the actor who holds it.
Top(rows)      == rows[Len(rows)]
Running(rows)  == rows # << >> /\ Live(Top(rows))
HolderOf(rows) == IF Running(rows) THEN Top(rows).holder ELSE None

\* Who holds a resource is a function of its newest row.
LEMMA LiveHolderIs ==
  LeasesInv => LiveHolder = [r \in Resources |-> HolderOf(leases[r])]
<1> SUFFICES ASSUME LeasesInv, NEW r \in Resources
             PROVE  (IF \E i \in DOMAIN leases[r] : IsCurrent(leases[r], i)
                     THEN leases[r][CHOOSE i \in DOMAIN leases[r] : IsCurrent(leases[r], i)].holder
                     ELSE None) = HolderOf(leases[r])
  BY DEF LiveHolder
<1> DEFINE rows == leases[r]
<1>1. HistoryInv(rows)
  BY DEF LeasesInv
<1>2. rows \in Seq(Rows) /\ Len(rows) \in Nat /\ DOMAIN rows = 1 .. Len(rows)
  BY <1>1 DEF HistoryInv
<1>3. \A i : IsCurrent(rows, i) <=> i = Len(rows) /\ rows # << >> /\ Live(rows[i])
  BY <1>1, CurrentIsNewest
<1> HIDE DEF rows
<1>4. CASE rows # << >> /\ Live(rows[Len(rows)])
  <2>1. Len(rows) \in DOMAIN rows /\ IsCurrent(rows, Len(rows))
    BY <1>2, <1>3, <1>4
  <2>2. (CHOOSE i \in DOMAIN rows : IsCurrent(rows, i)) = Len(rows)
    BY <1>3, <2>1
  <2> QED
    BY <1>4, <2>1, <2>2 DEF HolderOf, Running, Top, rows
<1>5. CASE ~(rows # << >> /\ Live(rows[Len(rows)]))
  <2>1. \A i \in DOMAIN rows : ~IsCurrent(rows, i)
    BY <1>2, <1>3, <1>5
  <2> QED
    BY <1>5, <2>1 DEF HolderOf, Running, Top, rows
<1> QED
  BY <1>4, <1>5

\* The same of the next state.
LEMMA LiveHolderNext ==
  LeasesInv' => (LiveHolder = [r \in Resources |-> HolderOf(leases[r])])'
BY LiveHolderIs, PTL

-----------------------------------------------------------------------------
(* Operations *)

\* What an operation on r does to the table and to the abstract lease: the
\* invariant holds again and the holder of r is h.
HistoryBecomes(r, rows, h) ==
  /\ leases' = [leases EXCEPT ![r] = rows]
  /\ HistoryInv(rows)
  /\ HolderOf(rows) = h

\* A step that leaves one resource's history good keeps the invariant.
LEMMA BecomesKeepsInv ==
  ASSUME LeasesInv, NEW r \in Resources, NEW rows, NEW h,
         HistoryBecomes(r, rows, h), drawn' \in Nat
  PROVE  /\ LeasesInv'
         /\ LiveHolder' = [LiveHolder EXCEPT ![r] = h]
         /\ leases'[r] = rows
         /\ \A q \in Resources \ {r} : leases'[q] = leases[q]
<1>1. leases' = [q \in Resources |-> IF q = r THEN rows ELSE leases[q]]
  BY DEF LeasesInv, HistoryBecomes
<1>2. \A q \in Resources : HistoryInv(leases'[q])
  BY <1>1 DEF LeasesInv, HistoryBecomes
<1>3. leases' = [q \in Resources |-> leases'[q]]
  BY <1>1
<1>4. LeasesInv'
  BY <1>2, <1>3 DEF LeasesInv
<1>5. LiveHolder = [q \in Resources |-> HolderOf(leases[q])]
  BY LiveHolderIs
<1>6. (LiveHolder = [q \in Resources |-> HolderOf(leases[q])])'
  BY <1>4, LiveHolderNext
<1> QED
  BY <1>1, <1>4, <1>5, <1>6 DEF HistoryBecomes

\* A history that ends in a live row.
LEMMA RunningTop ==
  ASSUME NEW rows \in Seq(Rows), NEW row, Len(rows) # 0, rows[Len(rows)] = row, Live(row)
  PROVE  Running(rows) /\ Top(rows) = row /\ HolderOf(rows) = row.holder
<1>1. rows # << >>
  BY EmptySeq
<1> QED
  BY <1>1 DEF HolderOf, Running, Top

\* The caller's own live row is renewed.
Renews(r, i, a, n, l, s) ==
  /\ i \in DOMAIN leases[r]
  /\ IsCurrent(leases[r], i)
  /\ leases[r][i].holder = a
  /\ leases' = [leases EXCEPT ![r][i] = Renewed(leases[r][i], n, l, s)]
  /\ drawn' = drawn

\* Renewing the current row changes no holder.
LEMMA RenewStep ==
  ASSUME LeasesInv, NEW r \in Resources, NEW i, NEW a \in Actors, NEW n \in Nat,
         NEW l \in 1 .. MaxLease, NEW s \in (Statuses \cup {"released"}) \ {"expired"},
         Renews(r, i, a, n, l, s)
  PROVE  /\ LeasesInv'
         /\ LiveHolder' = LiveHolder
         /\ \A q \in Resources \ {r} : leases'[q] = leases[q]
         /\ Running(leases'[r])
         /\ Top(leases'[r]).holder = a /\ Top(leases'[r]).left = l /\ Top(leases'[r]).token = n
         /\ Running(leases[r]) /\ Top(leases[r]) = leases[r][i]
<1> DEFINE old == leases[r]
           row == Renewed(old[i], n, l, s)
           rows == [old EXCEPT ![i] = row]
<1>1. HistoryInv(old) /\ old \in Seq(Rows) /\ drawn \in Nat
  BY DEF LeasesInv, HistoryInv
<1>2. Len(old) \in Nat /\ DOMAIN old = 1 .. Len(old) /\ old[i] \in Rows
  BY <1>1 DEF Renews
<1>3. i = Len(old) /\ old # << >> /\ Live(old[i])
  BY <1>1, CurrentIsNewest DEF Renews
<1>4. Running(old) /\ Top(old) = old[i]
  BY <1>3 DEF Running, Top
<1>5. /\ row \in Rows
      /\ row.status # "expired"
      /\ row.holder = a /\ row.left = l /\ row.token = n
      /\ Live(row)
  <2>1. l \in 0 .. MaxLease /\ l > 0
    BY ResourceLeasesAssumption
  <2> QED
    BY <1>2, <1>3, <2>1 DEF Renewed, Rows, Live, Renews
<1> HIDE DEF row
<1>6. HistoryInv(rows) /\ Len(rows) = Len(old) /\ rows[i] = row
  BY <1>1, <1>2, <1>3, <1>5, ReplacedRow DEF Renews
<1>7. rows \in Seq(Rows) /\ Len(rows) # 0 /\ rows[Len(rows)] = row
  BY <1>2, <1>3, <1>6 DEF HistoryInv
<1>8. leases' = [leases EXCEPT ![r] = rows] /\ drawn' = drawn
  BY DEF row, Renews
<1> HIDE DEF rows
<1>9. Running(rows) /\ Top(rows) = row /\ HolderOf(rows) = a
  BY <1>5, <1>7, RunningTop
<1>10. /\ LeasesInv'
       /\ LiveHolder' = [LiveHolder EXCEPT ![r] = a]
       /\ leases'[r] = rows
       /\ \A q \in Resources \ {r} : leases'[q] = leases[q]
  BY <1>1, <1>6, <1>8, <1>9, BecomesKeepsInv DEF HistoryBecomes
<1>11. LiveHolder = [q \in Resources |-> HolderOf(leases[q])] /\ HolderOf(leases[r]) = a
  BY <1>4, LiveHolderIs DEF HolderOf, Renews
<1>12. LiveHolder' = LiveHolder
  BY <1>10, <1>11
<1> QED
  BY <1>4, <1>5, <1>9, <1>10, <1>12

\* A claim of a resource without a live row appends one.
LEMMA AppendStep ==
  ASSUME LeasesInv, NEW r \in Resources, NEW a \in Actors, NEW n \in Nat,
         NEW l \in 1 .. MaxLease, NEW s \in Statuses,
         \A i \in DOMAIN leases[r] : ~IsCurrent(leases[r], i),
         NEW marked \in MaybeMarked(leases[r]),
         leases' = [leases EXCEPT ![r] = Append(marked, NewRow(a, n, l, s))],
         drawn' \in Nat
  PROVE  /\ LeasesInv'
         /\ LiveHolder[r] = None
         /\ LiveHolder' = [LiveHolder EXCEPT ![r] = a]
         /\ \A q \in Resources \ {r} : leases'[q] = leases[q]
         /\ Running(leases'[r])
         /\ Top(leases'[r]).holder = a /\ Top(leases'[r]).left = l /\ Top(leases'[r]).token = n
         /\ ~Running(leases[r])
<1> DEFINE old == leases[r]
           row == NewRow(a, n, l, s)
           rows == Append(marked, row)
<1>1. HistoryInv(old) /\ old \in Seq(Rows)
  BY DEF LeasesInv, HistoryInv
<1>2. \A i \in 1 .. Len(old) : ~Live(old[i])
  BY <1>1, NoneCurrent
<1>3. HistoryInv(marked) /\ \A i \in 1 .. Len(marked) : ~Live(marked[i])
  BY <1>1, <1>2, MarkedRows
<1>4. Len(marked) \in Nat
  BY <1>3 DEF HistoryInv
<1>5. /\ row \in Rows
      /\ row.status # "expired"
      /\ row.holder = a /\ row.left = l /\ row.token = n
      /\ Live(row)
  <2>1. l \in 0 .. MaxLease /\ l > 0 /\ s # "expired"
    BY ResourceLeasesAssumption
  <2> QED
    BY <2>1 DEF NewRow, Rows, Live
<1> HIDE DEF row
<1>6. HistoryInv(rows) /\ Len(rows) = Len(marked) + 1 /\ rows[Len(marked) + 1] = row
  BY <1>3, <1>5, AppendedRow
<1>7. rows \in Seq(Rows) /\ Len(rows) # 0 /\ rows[Len(rows)] = row
  BY <1>4, <1>6 DEF HistoryInv
<1>8. leases' = [leases EXCEPT ![r] = rows]
  BY DEF row
<1> HIDE DEF rows
<1>9. Running(rows) /\ Top(rows) = row /\ HolderOf(rows) = a
  BY <1>5, <1>7, RunningTop
<1>10. /\ LeasesInv'
       /\ LiveHolder' = [LiveHolder EXCEPT ![r] = a]
       /\ leases'[r] = rows
       /\ \A q \in Resources \ {r} : leases'[q] = leases[q]
  BY <1>6, <1>8, <1>9, BecomesKeepsInv DEF HistoryBecomes
<1>11. ~Running(old)
  <2>1. CASE old = << >>
    BY <2>1 DEF Running
  <2>2. CASE old # << >>
    <3>1. Len(old) \in 1 .. Len(old)
      BY <1>1, <2>2, EmptySeq
    <3> QED
      BY <1>2, <3>1 DEF Running, Top
  <2> QED
    BY <2>1, <2>2
<1>12. LiveHolder[r] = None
  BY <1>11, LiveHolderIs DEF HolderOf
<1> QED
  BY <1>5, <1>9, <1>10, <1>11, <1>12

\* A claim ends with the claimant's row on top and running.
LEMMA ClaimStep ==
  ASSUME LeasesInv, NEW r \in Resources, NEW a \in Actors, NEW g \in (1 .. drawn) \cup {None},
         NEW l \in 1 .. MaxLease, NEW s \in Statuses, claim_resource_lease(r, a, g, l, s)
  PROVE  /\ LeasesInv'
         /\ \A q \in Resources \ {r} : leases'[q] = leases[q]
         /\ Running(leases'[r]) /\ Top(leases'[r]).holder = a /\ Top(leases'[r]).left = l
         /\ \/ /\ Running(leases[r]) /\ Top(leases[r]).holder = a
               /\ Top(leases'[r]).token = IF g = None THEN Top(leases[r]).token ELSE g
               /\ drawn' = drawn
               /\ LiveHolder' = LiveHolder
            \/ /\ ~Running(leases[r])
               /\ Top(leases'[r]).token = IF g = None THEN drawn + 1 ELSE g
               /\ drawn' = IF g = None THEN drawn + 1 ELSE drawn
               /\ LiveHolder[r] = None /\ LiveHolder' = [LiveHolder EXCEPT ![r] = a]
<1>1. leases[r] \in Seq(Rows) /\ drawn \in Nat
  BY DEF LeasesInv, HistoryInv
<1>2. s \in (Statuses \cup {"released"}) \ {"expired"}
  BY ResourceLeasesAssumption
<1>3. CASE \E i \in DOMAIN leases[r] :
             /\ IsCurrent(leases[r], i)
             /\ leases[r][i].holder = a
             /\ leases' = [leases EXCEPT ![r][i] =
                  Renewed(leases[r][i], IF g = None THEN leases[r][i].token ELSE g, l, s)]
             /\ UNCHANGED drawn
  <2>1. PICK i \in DOMAIN leases[r] :
             /\ IsCurrent(leases[r], i)
             /\ leases[r][i].holder = a
             /\ leases' = [leases EXCEPT ![r][i] =
                  Renewed(leases[r][i], IF g = None THEN leases[r][i].token ELSE g, l, s)]
             /\ UNCHANGED drawn
    BY <1>3
  <2> DEFINE n == IF g = None THEN leases[r][i].token ELSE g
  <2>2. n \in Nat
    <3>1. leases[r][i] \in Rows
      BY <1>1, <2>1
    <3> QED
      BY <1>1, <3>1 DEF Rows
  <2>3. leases' = [leases EXCEPT ![r][i] = Renewed(leases[r][i], n, l, s)]
    BY <2>1
  <2> HIDE DEF n
  <2>4. /\ LeasesInv'
        /\ LiveHolder' = LiveHolder
        /\ \A q \in Resources \ {r} : leases'[q] = leases[q]
        /\ Running(leases'[r])
        /\ Top(leases'[r]).holder = a /\ Top(leases'[r]).left = l /\ Top(leases'[r]).token = n
        /\ Running(leases[r]) /\ Top(leases[r]) = leases[r][i]
    <3>1. Renews(r, i, a, n, l, s)
      BY <2>1, <2>3 DEF Renews
    <3> QED
      BY <1>2, <2>2, <3>1, RenewStep
  <2> QED
    BY <2>1, <2>4 DEF n
<1>4. CASE /\ \A i \in DOMAIN leases[r] : ~IsCurrent(leases[r], i)
           /\ \E rows \in MaybeMarked(leases[r]) :
                leases' = [leases EXCEPT ![r] =
                  Append(rows, NewRow(a, IF g = None THEN drawn + 1 ELSE g, l, s))]
           /\ drawn' = IF g = None THEN drawn + 1 ELSE drawn
  <2> DEFINE n == IF g = None THEN drawn + 1 ELSE g
  <2>1. PICK rows \in MaybeMarked(leases[r]) :
               leases' = [leases EXCEPT ![r] = Append(rows, NewRow(a, n, l, s))]
    BY <1>4
  <2>2. n \in Nat /\ drawn' \in Nat
    BY <1>1, <1>4
  <2> HIDE DEF n
  <2>3. /\ LeasesInv'
        /\ LiveHolder[r] = None
        /\ LiveHolder' = [LiveHolder EXCEPT ![r] = a]
        /\ \A q \in Resources \ {r} : leases'[q] = leases[q]
        /\ Running(leases'[r])
        /\ Top(leases'[r]).holder = a /\ Top(leases'[r]).left = l /\ Top(leases'[r]).token = n
        /\ ~Running(leases[r])
    BY <1>4, <2>1, <2>2, AppendStep
  <2> QED
    BY <1>4, <2>3 DEF n
<1> QED
  BY <1>3, <1>4 DEF claim_resource_lease

\* A heartbeat changes no holder.
LEMMA HeartbeatStep ==
  ASSUME LeasesInv, NEW r \in Resources, NEW i \in DOMAIN leases[r], NEW a \in Actors,
         NEW n \in 1 .. drawn, NEW l \in 1 .. MaxLease, NEW s \in Statuses \cup {None},
         heartbeat_resource_lease(r, i, a, n, l, s)
  PROVE  /\ LeasesInv'
         /\ LiveHolder' = LiveHolder
         /\ \A q \in Resources \ {r} : leases'[q] = leases[q]
         /\ Running(leases'[r])
         /\ Top(leases'[r]).holder = a /\ Top(leases'[r]).left = l /\ Top(leases'[r]).token = n
<1> DEFINE old == leases[r]
           word == IF s = None THEN old[i].status ELSE s
<1>1. HistoryInv(old) /\ old \in Seq(Rows) /\ drawn \in Nat
  BY DEF LeasesInv, HistoryInv
<1>2. DOMAIN old = 1 .. Len(old) /\ old[i] \in Rows
  BY <1>1
<1>3. ~old[i].released /\ old[i].status # "released" /\ old[i].left > 0 /\ old[i].holder = a
  BY DEF heartbeat_resource_lease, Extendable, ValidHolder
<1>4. old[i].status # "expired"
  <2>1. old[i].left # 0
    BY <1>2, <1>3 DEF Rows
  <2> QED
    BY <1>1, <1>2, <2>1 DEF HistoryInv
<1>5. Live(old[i])
  BY <1>3, <1>4 DEF Live
<1>6. IsCurrent(old, i)
  <2>1. i = Len(old) /\ old # << >>
    BY <1>1, <1>2, <1>5 DEF HistoryInv
  <2> QED
    BY <1>1, <1>5, <2>1, CurrentIsNewest
<1>7. word \in (Statuses \cup {"released"}) \ {"expired"}
  BY <1>1, <1>2, <1>4, ResourceLeasesAssumption DEF Rows
<1>8. leases' = [leases EXCEPT ![r][i] = Renewed(old[i], n, l, word)] /\ drawn' = drawn
  BY DEF heartbeat_resource_lease
<1> HIDE DEF word
<1>9. Renews(r, i, a, n, l, word)
  BY <1>3, <1>6, <1>8 DEF Renews
<1>10. n \in Nat
  BY <1>1
<1>11. /\ LeasesInv'
       /\ LiveHolder' = LiveHolder
       /\ \A q \in Resources \ {r} : leases'[q] = leases[q]
       /\ Running(leases'[r])
       /\ Top(leases'[r]).holder = a /\ Top(leases'[r]).left = l /\ Top(leases'[r]).token = n
       /\ Running(leases[r]) /\ Top(leases[r]) = leases[r][i]
  BY <1>7, <1>9, <1>10, RenewStep
<1> QED
  BY <1>11

\* A release frees its own resource, or nothing.
LEMMA ReleaseStep ==
  ASSUME LeasesInv, NEW r \in Resources, NEW i \in DOMAIN leases[r], NEW a, NEW n,
         release_resource_lease(r, i, a, n)
  PROVE  /\ LeasesInv'
         /\ LiveHolder' \in {LiveHolder, [LiveHolder EXCEPT ![r] = None]}
         /\ \A q \in Resources \ {r} : leases'[q] = leases[q]
         /\ IsCurrent(leases[r], i) => ~Running(leases'[r])
         /\ drawn' = drawn
<1> DEFINE old == leases[r]
           row == [old[i] EXCEPT !.status = "released", !.released = TRUE, !.left = 0]
           rows == [old EXCEPT ![i] = row]
<1>1. HistoryInv(old) /\ old \in Seq(Rows) /\ drawn \in Nat
  BY DEF LeasesInv, HistoryInv
<1>2. Len(old) \in Nat /\ DOMAIN old = 1 .. Len(old) /\ old[i] \in Rows
  BY <1>1
<1>3. row \in Rows /\ row.status # "expired" /\ ~Live(row)
  <2>1. row \in Rows
    <3>1. 0 \in 0 .. MaxLease
      BY ResourceLeasesAssumption
    <3> QED
      BY <1>2, <3>1 DEF Rows
  <2>2. row.status = "released" /\ row.released
    BY <1>2 DEF Rows
  <2> HIDE DEF row
  <2> QED
    BY <2>1, <2>2 DEF Live
<1> HIDE DEF row
<1>4. /\ HistoryInv(rows)
      /\ Len(rows) = Len(old)
      /\ rows[i] = row
      /\ \A j \in 1 .. Len(old) : j # i => rows[j] = old[j]
  BY <1>1, <1>3, ReplacedRow
<1>5. rows \in Seq(Rows) /\ rows # << >> /\ old # << >> /\ Len(old) \in 1 .. Len(old)
  BY <1>1, <1>2, <1>4, EmptySeq DEF HistoryInv
<1>6. leases' = [leases EXCEPT ![r] = rows] /\ drawn' = drawn
  BY DEF release_resource_lease, row
<1> HIDE DEF rows
<1>7. HolderOf(rows) \in {HolderOf(old), None}
  <2>1. CASE i = Len(old)
    BY <1>3, <1>4, <2>1 DEF HolderOf, Running, Top
  <2>2. CASE i # Len(old)
    <3>1. Top(rows) = Top(old)
      BY <1>4, <1>5, <2>2 DEF Top
    <3> QED
      BY <1>5, <3>1 DEF HolderOf, Running
  <2> QED
    BY <2>1, <2>2
<1>8. ASSUME IsCurrent(old, i) PROVE ~Running(rows)
  <2>1. i = Len(old)
    BY <1>1, <1>8, CurrentIsNewest
  <2> QED
    BY <1>3, <1>4, <2>1 DEF Running, Top
<1>9. /\ LeasesInv'
      /\ LiveHolder' = [LiveHolder EXCEPT ![r] = HolderOf(rows)]
      /\ leases'[r] = rows
      /\ \A q \in Resources \ {r} : leases'[q] = leases[q]
  BY <1>1, <1>4, <1>6, BecomesKeepsInv DEF HistoryBecomes
<1>10. LiveHolder = [q \in Resources |-> HolderOf(leases[q])]
  BY LiveHolderIs
<1>11. LiveHolder' \in {LiveHolder, [LiveHolder EXCEPT ![r] = None]}
  BY <1>7, <1>9, <1>10
<1> QED
  BY <1>6, <1>8, <1>9, <1>11

\* Time makes no row live, and marks none.
LEMMA AgedRows ==
  ASSUME NEW old, HistoryInv(old)
  PROVE  /\ HistoryInv(Aged(old))
         /\ HolderOf(Aged(old)) \in {HolderOf(old), None}
         /\ Running(Aged(old)) <=> Running(old) /\ Top(old).left > 1
         /\ Running(old) => /\ Top(Aged(old)).holder = Top(old).holder
                            /\ Top(Aged(old)).token = Top(old).token
                            /\ Top(Aged(old)).left = Top(old).left - 1
<1> DEFINE new == Aged(old)
<1>1. old \in Seq(Rows) /\ Len(old) \in Nat /\ DOMAIN old = 1 .. Len(old)
  BY DEF HistoryInv
<1>2. ASSUME NEW i \in 1 .. Len(old)
      PROVE  /\ new[i] \in Rows
             /\ new[i].status = old[i].status
             /\ new[i].holder = old[i].holder
             /\ old[i].left = 0 => new[i].left = 0
             /\ Live(new[i]) <=> Live(old[i]) /\ old[i].left > 1
             /\ Live(old[i]) => new[i].token = old[i].token /\ new[i].left = old[i].left - 1
  <2>1. old[i] \in Rows
    BY <1>1
  <2>2. new[i] = [old[i] EXCEPT !.left = IF old[i].left = 0 THEN 0 ELSE old[i].left - 1]
    BY <1>1 DEF Aged
  <2>3. (IF old[i].left = 0 THEN 0 ELSE old[i].left - 1) \in 0 .. MaxLease
    BY <2>1, ResourceLeasesAssumption DEF Rows
  <2>4. new[i] \in Rows
    BY <2>1, <2>2, <2>3 DEF Rows
  <2>5. /\ new[i].status = old[i].status
        /\ new[i].holder = old[i].holder
        /\ new[i].released = old[i].released
        /\ new[i].token = old[i].token
        /\ new[i].left = IF old[i].left = 0 THEN 0 ELSE old[i].left - 1
    BY <2>1, <2>2 DEF Rows
  <2>6. /\ new[i].left > 0 <=> old[i].left > 0 /\ old[i].left > 1
        /\ old[i].left > 0 => new[i].left = old[i].left - 1
    BY <2>1, <2>5, ResourceLeasesAssumption DEF Rows
  <2> HIDE DEF new
  <2>7. Live(new[i]) <=> Live(old[i]) /\ old[i].left > 1
    BY <2>5, <2>6 DEF Live
  <2>8. Live(old[i]) => new[i].left = old[i].left - 1
    BY <2>6 DEF Live
  <2> QED
    BY <2>4, <2>5, <2>7, <2>8
<1>3. DOMAIN new = 1 .. Len(old)
  BY <1>1 DEF Aged
<1>4. new = [i \in 1 .. Len(old) |-> new[i]]
  BY <1>1 DEF Aged
<1> HIDE DEF new
<1>5. new \in Seq(Rows) /\ Len(new) = Len(old)
  <2>1. new \in [1 .. Len(old) -> Rows]
    BY <1>2, <1>4
  <2> QED
    BY <1>1, <2>1, LenProperties
<1>6. \A i \in 1 .. Len(old) : /\ old[i].status = "expired" => old[i].left = 0
                              /\ Live(old[i]) => i = Len(old)
  BY DEF HistoryInv
<1>7. HistoryInv(new)
  BY <1>2, <1>5, <1>6 DEF HistoryInv
<1>8. new = << >> <=> old = << >>
  BY <1>1, <1>5, EmptySeq
<1>9. ASSUME old # << >>
      PROVE  /\ Top(new).holder = Top(old).holder
             /\ Live(Top(new)) <=> Live(Top(old)) /\ Top(old).left > 1
             /\ Live(Top(old)) => /\ Top(new).token = Top(old).token
                                  /\ Top(new).left = Top(old).left - 1
  <2>1. Len(old) \in 1 .. Len(old)
    BY <1>1, <1>9, EmptySeq
  <2> QED
    BY <1>2, <1>5, <2>1 DEF Top
<1>10. Running(new) <=> Running(old) /\ Top(old).left > 1
  BY <1>8, <1>9 DEF Running
<1>11. Running(old) => /\ Top(new).holder = Top(old).holder
                       /\ Top(new).token = Top(old).token
                       /\ Top(new).left = Top(old).left - 1
  BY <1>9 DEF Running
<1>12. HolderOf(new) \in {HolderOf(old), None}
  BY <1>10, <1>11 DEF HolderOf
<1> QED
  BY <1>7, <1>10, <1>11, <1>12 DEF new

\* Time lets leases lapse.
LEMMA TickStep ==
  ASSUME LeasesInv, LeasesTick
  PROVE  LeasesInv' /\ \E S \in SUBSET Resources : Lease!Lapse(S)
<1>1. leases' = [r \in Resources |-> Aged(leases[r])] /\ drawn' = drawn
  BY DEF LeasesTick
<1>2. \A r \in Resources : HistoryInv(leases[r])
  BY DEF LeasesInv
<1>3. \A r \in Resources : HistoryInv(leases'[r]) /\ leases'[r] = Aged(leases[r])
  BY <1>1, <1>2, AgedRows
<1>4. leases' = [r \in Resources |-> leases'[r]]
  BY <1>1
<1>5. LeasesInv'
  BY <1>1, <1>3, <1>4 DEF LeasesInv
<1>6. LiveHolder' = [r \in Resources |-> HolderOf(leases'[r])]
  BY <1>5, LiveHolderNext
<1>7. LiveHolder = [r \in Resources |-> HolderOf(leases[r])]
  BY LiveHolderIs
<1>8. \A r \in Resources : HolderOf(leases'[r]) \in {HolderOf(leases[r]), None}
  BY <1>2, <1>3, AgedRows
<1> DEFINE S == {r \in Resources : HolderOf(leases'[r]) = None}
<1>9. LiveHolder' = [r \in Resources |-> IF r \in S THEN None ELSE LiveHolder[r]]
  BY <1>6, <1>7, <1>8
<1>10. Lease!Lapse(S)
  BY <1>9 DEF Lease!Lapse
<1> QED
  BY <1>5, <1>10

\* Every step of the service keeps the invariant and is a step of the abstract lease.
LEMMA LeasesStep ==
  ASSUME LeasesInv, LeasesNext
  PROVE  LeasesInv' /\ (Lease!Next \/ LiveHolder' = LiveHolder)
<1>1. CASE ClaimLease
  <2>1. PICK r \in Resources, a \in Actors, g \in (1 .. drawn) \cup {None},
             l \in 1 .. MaxLease, s \in Statuses : claim_resource_lease(r, a, g, l, s)
    BY <1>1 DEF ClaimLease
  <2>2. /\ LeasesInv'
        /\ \/ LiveHolder' = LiveHolder
           \/ LiveHolder[r] = None /\ LiveHolder' = [LiveHolder EXCEPT ![r] = a]
    BY <2>1, ClaimStep
  <2> QED
    BY <2>2 DEF Lease!Next, Lease!Grant
<1>2. CASE HeartbeatLease
  BY <1>2, HeartbeatStep DEF HeartbeatLease
<1>3. CASE ReleaseLease
  <2>1. PICK r \in Resources : \E i \in DOMAIN leases[r] :
               \E a \in Actors, n \in 1 .. drawn : release_resource_lease(r, i, a, n)
    BY <1>3 DEF ReleaseLease
  <2>2. LeasesInv' /\ LiveHolder' \in {LiveHolder, [LiveHolder EXCEPT ![r] = None]}
    BY <2>1, ReleaseStep
  <2>3. LiveHolder = [q \in Resources |-> HolderOf(leases[q])]
    BY LiveHolderIs
  <2>4. LiveHolder' = [LiveHolder EXCEPT ![r] = None] => Lease!Lapse({r})
    BY <2>3 DEF Lease!Lapse
  <2> QED
    BY <2>2, <2>4 DEF Lease!Next
<1>4. CASE LeasesTick
  BY <1>4, TickStep DEF Lease!Next
<1> QED
  BY <1>1, <1>2, <1>3, <1>4 DEF LeasesNext

\* At the start nobody holds anything.
LEMMA LeasesInitInv == LeasesInit => LeasesInv /\ Lease!Init
<1> SUFFICES ASSUME LeasesInit PROVE LeasesInv /\ Lease!Init
  OBVIOUS
<1>1. leases = [r \in Resources |-> << >>] /\ drawn = 0
  BY DEF LeasesInit
<1>2. HistoryInv(<< >>) /\ HolderOf(<< >>) = None
  BY EmptySeq DEF HistoryInv, HolderOf, Running, Top
<1>3. LeasesInv
  BY <1>1, <1>2 DEF LeasesInv
<1>4. LiveHolder = [r \in Resources |-> None]
  BY <1>1, <1>2, <1>3, LiveHolderIs
<1> QED
  BY <1>3, <1>4 DEF Lease!Init

\* Every step keeps the invariant and is one of the abstract lease.
LEMMA LeasesBoxStep ==
  LeasesInv /\ [LeasesNext]_leaseVars => LeasesInv' /\ [Lease!Next]_LiveHolder
<1> SUFFICES ASSUME LeasesInv, [LeasesNext]_leaseVars
             PROVE  LeasesInv' /\ [Lease!Next]_LiveHolder
  OBVIOUS
<1>1. CASE LeasesNext
  BY <1>1, LeasesStep
<1>2. CASE UNCHANGED leaseVars
  <2>1. LeasesInv'
    BY <1>2 DEF LeasesInv, leaseVars
  <2>2. LiveHolder' = LiveHolder
    BY <1>2 DEF LiveHolder, leaseVars
  <2> QED
    BY <2>1, <2>2
<1> QED
  BY <1>1, <1>2

-----------------------------------------------------------------------------
\* The service keeps the invariant of every resource's history.
THEOREM LeasesInvariance == LeasesSpec => []LeasesInv
<1>1. LeasesInit => LeasesInv
  BY LeasesInitInv
<1>2. LeasesInv /\ [LeasesNext]_leaseVars => LeasesInv'
  BY LeasesBoxStep
<1> QED
  BY <1>1, <1>2, PTL DEF LeasesSpec

\* The rows claim, heartbeat and release write are rows of the lease table.
THEOREM LeasesTypeCorrect == LeasesSpec => []LeasesTypeOK
BY LeasesInvariance, LeasesInvImplies, PTL

\* However late a heartbeat or a release names an old row of a resource, only
\* the row of the newest claim is ever live.
THEOREM NewestOnly == LeasesSpec => []OnlyNewestIsLive
BY LeasesInvariance, LeasesInvImplies, PTL

\* Claims, heartbeats, releases and time give a resource at most one holder, and
\* never hand it from one holder to another in one step.
THEOREM LeasesImplementation == LeasesSpec => ImplementsExclusiveLease
<1>1. LeasesInit => Lease!Init
  BY LeasesInitInv
<1>2. LeasesInv /\ [LeasesNext]_leaseVars => [Lease!Next]_LiveHolder
  BY LeasesBoxStep
<1> QED
  BY <1>1, <1>2, LeasesInvariance, PTL DEF LeasesSpec, ImplementsExclusiveLease, Lease!Spec
=============================================================================
