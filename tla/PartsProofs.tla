----------------------------- MODULE PartsProofs -----------------------------
(***************************************************************************)
(* Proofs about five small parts: Custody, Placement, Mails, Refunds and   *)
(* Access, for every set of actors, every opening balance, every lifetime  *)
(* of the tokens and all bounds; and, with what IdentityProofs and         *)
(* ExchangeProofs say of the other five, about all ten parts together.     *)
(***************************************************************************)
EXTENDS MCServices, IdentityProofs, ExchangeProofs, FiniteSetTheorems, TLAPS

-----------------------------------------------------------------------------
(* Custody: the invariant                                                    *)

\* The lock belongs to the one reservation that is under way.
RowLocked ==
    /\ \A p \in Payments : pay[p] = "reserving" <=> p \in holder
    /\ \A p, q \in holder : p = q

\* Its copy is the row itself: nobody saves a row that is locked.
CopiesFresh == \A p \in Payments : pay[p] = "reserving" => known[p] = row

\* A row that nobody has invented money in.
HonestRow(r) == r.reserved <= r.balance /\ r.balance >= Opening - paid

\* Neither the row nor a copy that may be saved invents money.
AllHonest ==
    /\ HonestRow(row)
    /\ \A x \in Payments \cup Admins : HonestRow(known[x])

\* After a decision no settlement saw the beginning of, every copy that a
\* payment may save has the status that was decided.
Thawed ==
    ~contended =>
        /\ row.status = decided
        /\ \A p \in Payments : pay[p] = "settling" => known[p].status = decided

CustodyInv ==
    /\ CustodyTypeOK
    /\ RowLocked
    /\ CopiesFresh
    /\ AllHonest
    /\ Thawed

-----------------------------------------------------------------------------
(* Type correctness                                                          *)

LEMMA NewWalletOK == NewWallet \in WalletRow
BY CustodyAssumption DEF NewWallet, WalletRow, Status

LEMMA RowFields ==
  ASSUME NEW r \in WalletRow
  PROVE  /\ r.status \in Status /\ r.balance \in Int /\ r.reserved \in Int
         /\ \A s \in Status :
              /\ [r EXCEPT !.status = s] \in WalletRow
              /\ [r EXCEPT !.status = s].status = s
              /\ [r EXCEPT !.status = s].balance = r.balance
              /\ [r EXCEPT !.status = s].reserved = r.reserved
         /\ \A n \in Int :
              /\ [r EXCEPT !.reserved = n] \in WalletRow
              /\ [r EXCEPT !.reserved = n].status = r.status
              /\ [r EXCEPT !.reserved = n].balance = r.balance
              /\ [r EXCEPT !.reserved = n].reserved = n
         /\ \A n \in Int :
              /\ [r EXCEPT !.balance = n] \in WalletRow
              /\ [r EXCEPT !.balance = n].status = r.status
              /\ [r EXCEPT !.balance = n].balance = n
              /\ [r EXCEPT !.balance = n].reserved = r.reserved
BY DEF WalletRow

\* What reserve_funds and commit_funds save.
Reserved(r) == [r EXCEPT !.reserved = @ + 1]
Settled(r)  == [r EXCEPT !.balance = @ - 1, !.reserved = @ - 1]

LEMMA ReservedOK ==
  ASSUME NEW r \in WalletRow
  PROVE  /\ Reserved(r) \in WalletRow
         /\ Reserved(r).status = r.status
         /\ Reserved(r).balance = r.balance
         /\ Reserved(r).reserved = r.reserved + 1
<1>1. r.reserved + 1 \in Int
  BY RowFields
<1>2. Reserved(r) = [r EXCEPT !.reserved = r.reserved + 1]
  BY DEF Reserved, WalletRow
<1>3. QED
  BY <1>1, <1>2, RowFields

LEMMA SettledOK ==
  ASSUME NEW r \in WalletRow
  PROVE  /\ Settled(r) \in WalletRow
         /\ Settled(r).status = r.status
         /\ Settled(r).balance = r.balance - 1
         /\ Settled(r).reserved = r.reserved - 1
<1>1. r.reserved - 1 \in Int /\ r.balance - 1 \in Int
  BY RowFields
<1> DEFINE b == [r EXCEPT !.balance = r.balance - 1]
<1>2. b \in WalletRow /\ b.status = r.status /\ b.balance = r.balance - 1
      /\ b.reserved = r.reserved
  BY <1>1, RowFields
<1>3. Settled(r) = [b EXCEPT !.reserved = r.reserved - 1]
  BY DEF Settled, WalletRow
<1> HIDE DEF b
<1>4. QED
  BY <1>1, <1>2, <1>3, RowFields

LEMMA ReadOK ==
  ASSUME CustodyTypeOK, NEW x \in Payments \cup Admins, NEW r \in WalletRow,
         known' = [known EXCEPT ![x] = r]
  PROVE  /\ known' \in [Payments \cup Admins -> WalletRow]
         /\ \A y \in Payments \cup Admins :
              known'[y] = IF y = x THEN r ELSE known[y]
BY DEF CustodyTypeOK

LEMMA GoesOK ==
  ASSUME CustodyTypeOK, NEW p \in Payments, NEW from, NEW to \in PayStep,
         Goes(p, from, to)
  PROVE  /\ pay[p] = from
         /\ pay' \in [Payments -> PayStep]
         /\ \A q \in Payments : pay'[q] = IF q = p THEN to ELSE pay[q]
BY DEF CustodyTypeOK, Goes

-----------------------------------------------------------------------------
(* Custody: each step preserves the invariant                                *)

LEMMA CustodyInitInv == CustodyInit => CustodyInv
<1> SUFFICES ASSUME CustodyInit PROVE CustodyInv
  OBVIOUS
<1>1. CustodyTypeOK
  BY NewWalletOK DEF CustodyInit, CustodyTypeOK, PayStep, Status
<1>2. RowLocked /\ CopiesFresh
  BY DEF CustodyInit, RowLocked, CopiesFresh
<1>3. HonestRow(NewWallet)
  BY CustodyAssumption DEF CustodyInit, HonestRow, NewWallet
<1>4. AllHonest
  BY <1>3 DEF CustodyInit, AllHonest, HonestRow
<1>5. Thawed
  BY DEF CustodyInit, Thawed, NewWallet
<1>6. QED
  BY <1>1, <1>2, <1>4, <1>5 DEF CustodyInv

\* Steps that leave the row and the debit rows alone.
LEMMA AllowInv ==
  ASSUME CustodyInv, NEW p \in Payments, NEW to \in {"allowed", "refused"},
         Goes(p, "new", to),
         UNCHANGED <<row, holder, open, known, paid, decided, contended>>
  PROVE  CustodyInv'
<1>1. to \in PayStep
  BY DEF PayStep
<1>2. /\ pay[p] = "new" /\ pay' \in [Payments -> PayStep]
      /\ \A q \in Payments : pay'[q] = IF q = p THEN to ELSE pay[q]
  BY <1>1, GoesOK DEF CustodyInv
<1>3. CustodyTypeOK'
  BY <1>2 DEF CustodyInv, CustodyTypeOK
<1>4. RowLocked' /\ CopiesFresh'
  BY <1>2 DEF CustodyInv, RowLocked, CopiesFresh
<1>5. AllHonest' /\ Thawed'
  BY <1>2 DEF CustodyInv, AllHonest, HonestRow, Thawed
<1>6. QED
  BY <1>3, <1>4, <1>5 DEF CustodyInv

LEMMA ReserveReadInv ==
  ASSUME CustodyInv, NEW p \in Payments, ReserveRead(p)
  PROVE  CustodyInv'
<1>1. /\ pay[p] = "allowed" /\ pay' \in [Payments -> PayStep]
      /\ \A q \in Payments : pay'[q] = IF q = p THEN "reserving" ELSE pay[q]
  BY GoesOK DEF CustodyInv, ReserveRead, PayStep
<1>2. /\ known' \in [Payments \cup Admins -> WalletRow]
      /\ \A y \in Payments \cup Admins : known'[y] = IF y = p THEN row ELSE known[y]
  BY ReadOK DEF CustodyInv, CustodyTypeOK, ReserveRead, Read
<1>3. holder = {} /\ holder' = {p}
  BY DEF ReserveRead, Lock
<1>4. UNCHANGED <<row, open, paid, decided, contended>>
  BY DEF ReserveRead
<1>5. CustodyTypeOK'
  BY <1>1, <1>2, <1>3, <1>4 DEF CustodyInv, CustodyTypeOK
<1>6. RowLocked'
  BY <1>1, <1>3 DEF CustodyInv, RowLocked
<1>7. CopiesFresh'
  BY <1>1, <1>2, <1>3, <1>4 DEF CustodyInv, CopiesFresh, RowLocked
<1>8. AllHonest'
  BY <1>2, <1>4 DEF CustodyInv, AllHonest, HonestRow
<1>9. Thawed'
  BY <1>1, <1>2, <1>4 DEF CustodyInv, Thawed
<1>10. QED
  BY <1>5, <1>6, <1>7, <1>8, <1>9 DEF CustodyInv

\* The lock is given back, with the row saved or not.
LEMMA ReleaseInv ==
  ASSUME CustodyInv, NEW p \in Payments, NEW to \in {"reserved", "refused"},
         Goes(p, "reserving", to), holder' = holder \ {p}, Forget(p),
         row' \in WalletRow, row'.status = row.status,
         row'.balance = row.balance, row'.reserved <= row.balance,
         UNCHANGED <<open, paid, decided, contended>>
  PROVE  CustodyInv'
<1>1. to \in PayStep
  BY DEF PayStep
<1>2. /\ pay[p] = "reserving" /\ pay' \in [Payments -> PayStep]
      /\ \A q \in Payments : pay'[q] = IF q = p THEN to ELSE pay[q]
  BY <1>1, GoesOK DEF CustodyInv
<1>3. /\ known' \in [Payments \cup Admins -> WalletRow]
      /\ \A y \in Payments \cup Admins :
            known'[y] = IF y = p THEN NewWallet ELSE known[y]
  BY NewWalletOK, ReadOK DEF CustodyInv, Forget
<1>4. holder' = {} /\ \A q \in Payments : pay'[q] # "reserving"
  BY <1>2 DEF CustodyInv, CustodyTypeOK, RowLocked
<1>5. CustodyTypeOK'
  BY <1>2, <1>3, <1>4 DEF CustodyInv, CustodyTypeOK
<1>6. RowLocked' /\ CopiesFresh'
  BY <1>4 DEF RowLocked, CopiesFresh
<1>7. HonestRow(NewWallet)
  BY CustodyAssumption DEF CustodyInv, CustodyTypeOK, HonestRow, NewWallet
<1>8. AllHonest'
  BY <1>3, <1>7 DEF CustodyInv, AllHonest, HonestRow
<1>9. Thawed'
  BY <1>2, <1>3 DEF CustodyInv, Thawed
<1>10. QED
  BY <1>5, <1>6, <1>8, <1>9 DEF CustodyInv

LEMMA ReserveSaveInv ==
  ASSUME CustodyInv, NEW p \in Payments, ReserveSave(p)
  PROVE  CustodyInv'
<1>1. pay[p] = "reserving" /\ known[p] = row /\ row \in WalletRow
  BY DEF ReserveSave, Goes, CustodyInv, CopiesFresh, CustodyTypeOK
<1>2. row' = Reserved(row)
  BY <1>1 DEF ReserveSave, Reserved
<1>3. row.balance - row.reserved >= 1
  BY <1>1 DEF ReserveSave, Covers, Funds
<1>4. /\ row' \in WalletRow /\ row'.status = row.status
      /\ row'.balance = row.balance /\ row'.reserved = row.reserved + 1
  BY <1>1, <1>2, ReservedOK
<1>5. row.balance \in Int /\ row.reserved \in Int
  BY <1>1, RowFields
<1>6. row'.reserved <= row.balance
  BY <1>3, <1>4, <1>5
<1>7. /\ Goes(p, "reserving", "reserved") /\ holder' = holder \ {p} /\ Forget(p)
      /\ UNCHANGED <<open, paid, decided, contended>>
  BY DEF ReserveSave
<1>8. QED
  BY <1>4, <1>6, <1>7, ReleaseInv

LEMMA ReserveEndsInv ==
  ASSUME CustodyInv, NEW p \in Payments, ReserveEnds(p)
  PROVE  CustodyInv'
<1>1. row' = row /\ row \in WalletRow /\ row.reserved <= row.balance
  BY DEF ReserveEnds, CustodyInv, CustodyTypeOK, AllHonest, HonestRow
<1>2. /\ Goes(p, "reserving", "refused") /\ holder' = holder \ {p} /\ Forget(p)
      /\ UNCHANGED <<open, paid, decided, contended>>
  BY DEF ReserveEnds
<1>3. QED
  BY <1>1, <1>2, ReleaseInv

LEMMA SettleReadInv ==
  ASSUME CustodyInv, NEW p \in Payments, SettleRead(p)
  PROVE  CustodyInv'
<1>1. /\ pay[p] = "reserved" /\ pay' \in [Payments -> PayStep]
      /\ \A q \in Payments : pay'[q] = IF q = p THEN "settling" ELSE pay[q]
  BY GoesOK DEF CustodyInv, SettleRead, PayStep
<1>2. /\ known' \in [Payments \cup Admins -> WalletRow]
      /\ \A y \in Payments \cup Admins : known'[y] = IF y = p THEN row ELSE known[y]
  BY ReadOK DEF CustodyInv, CustodyTypeOK, SettleRead, Read
<1>3. UNCHANGED <<row, holder, open, paid, decided, contended>>
  BY DEF SettleRead
<1>4. CustodyTypeOK'
  BY <1>1, <1>2, <1>3 DEF CustodyInv, CustodyTypeOK
<1>5. RowLocked' /\ CopiesFresh'
  BY <1>1, <1>2, <1>3 DEF CustodyInv, RowLocked, CopiesFresh
<1>6. AllHonest'
  BY <1>2, <1>3 DEF CustodyInv, AllHonest, HonestRow
<1>7. Thawed'
  BY <1>1, <1>2, <1>3 DEF CustodyInv, Thawed
<1>8. QED
  BY <1>4, <1>5, <1>6, <1>7 DEF CustodyInv

\* The copy may be old, so that the saved row hides what others have reserved or
\* paid; it still has the status that was decided.
LEMMA SettleSaveInv ==
  ASSUME CustodyInv, NEW p \in Payments, SettleSave(p)
  PROVE  CustodyInv'
<1>1. /\ pay[p] = "settling" /\ pay' \in [Payments -> PayStep]
      /\ \A q \in Payments : pay'[q] = IF q = p THEN "settled" ELSE pay[q]
  BY GoesOK DEF CustodyInv, SettleSave, PayStep
<1>2. /\ known' \in [Payments \cup Admins -> WalletRow]
      /\ \A y \in Payments \cup Admins :
            known'[y] = IF y = p THEN NewWallet ELSE known[y]
  BY NewWalletOK, ReadOK DEF CustodyInv, SettleSave, Forget
<1>3. /\ holder = {} /\ paid' = paid + 1 /\ row' = Settled(known[p])
      /\ UNCHANGED <<holder, open, decided, contended>>
  BY DEF SettleSave, Settled
<1>4. known[p] \in WalletRow
  BY DEF CustodyInv, CustodyTypeOK
<1>5. /\ row' \in WalletRow /\ row'.status = known[p].status
      /\ row'.balance = known[p].balance - 1
      /\ row'.reserved = known[p].reserved - 1
  BY <1>3, <1>4, SettledOK
<1>6. CustodyTypeOK'
  BY <1>1, <1>2, <1>3, <1>5 DEF CustodyInv, CustodyTypeOK
<1>7. RowLocked' /\ CopiesFresh'
  BY <1>1, <1>3 DEF CustodyInv, RowLocked, CopiesFresh
<1>8. AllHonest'
  <2>1. paid \in Nat /\ Opening \in Nat
    BY CustodyAssumption DEF CustodyInv, CustodyTypeOK
  <2>2. \A x \in Payments \cup Admins :
          /\ known[x].balance \in Int /\ known[x].reserved \in Int
          /\ known[x].reserved <= known[x].balance
          /\ known[x].balance >= Opening - paid
    BY RowFields DEF CustodyInv, CustodyTypeOK, AllHonest, HonestRow
  <2>3. HonestRow(row)'
    BY <1>3, <1>5, <2>1, <2>2 DEF HonestRow
  <2>4. ASSUME NEW x \in Payments \cup Admins PROVE HonestRow(known[x])'
    <3>1. CASE x = p
      <4>1. known'[x].reserved = 0 /\ known'[x].balance = Opening
        BY <1>2, <3>1 DEF NewWallet
      <4>2. QED
        BY <4>1, <1>3, <2>1 DEF HonestRow
    <3>2. CASE x # p
      BY <1>2, <1>3, <2>1, <2>2, <3>2 DEF HonestRow
    <3>3. QED
      BY <3>1, <3>2
  <2>5. QED
    BY <2>3, <2>4 DEF AllHonest
<1>9. Thawed'
  BY <1>1, <1>2, <1>3, <1>5 DEF CustodyInv, Thawed
<1>10. QED
  BY <1>6, <1>7, <1>8, <1>9 DEF CustodyInv

LEMMA SettleEndsInv ==
  ASSUME CustodyInv, NEW p \in Payments, SettleEnds(p)
  PROVE  CustodyInv'
<1>1. /\ pay[p] = "settling" /\ pay' \in [Payments -> PayStep]
      /\ \A q \in Payments : pay'[q] = IF q = p THEN "reserved" ELSE pay[q]
  BY GoesOK DEF CustodyInv, SettleEnds, PayStep
<1>2. /\ known' \in [Payments \cup Admins -> WalletRow]
      /\ \A y \in Payments \cup Admins :
            known'[y] = IF y = p THEN NewWallet ELSE known[y]
  BY NewWalletOK, ReadOK DEF CustodyInv, SettleEnds, Forget
<1>3. UNCHANGED <<row, holder, open, paid, decided, contended>>
  BY DEF SettleEnds
<1>4. HonestRow(NewWallet)
  BY CustodyAssumption DEF CustodyInv, CustodyTypeOK, HonestRow, NewWallet
<1>5. CustodyTypeOK'
  BY <1>1, <1>2, <1>3 DEF CustodyInv, CustodyTypeOK
<1>6. RowLocked' /\ CopiesFresh'
  BY <1>1, <1>2, <1>3 DEF CustodyInv, RowLocked, CopiesFresh
<1>7. AllHonest'
  BY <1>2, <1>3, <1>4 DEF CustodyInv, AllHonest, HonestRow
<1>8. Thawed'
  BY <1>1, <1>2, <1>3 DEF CustodyInv, Thawed
<1>9. QED
  BY <1>5, <1>6, <1>7, <1>8 DEF CustodyInv

\* A page that is opened or closed.
LEMMA PageInv ==
  ASSUME CustodyInv, NEW a \in Admins, NEW r \in {row, NewWallet},
         known' = [known EXCEPT ![a] = r], open' \subseteq Admins,
         UNCHANGED <<row, holder, pay, paid, decided, contended>>
  PROVE  CustodyInv'
<1>1. r \in WalletRow
  BY NewWalletOK DEF CustodyInv, CustodyTypeOK
<1>2. /\ known' \in [Payments \cup Admins -> WalletRow]
      /\ \A y \in Payments \cup Admins : known'[y] = IF y = a THEN r ELSE known[y]
  BY <1>1, ReadOK DEF CustodyInv
<1>3. \A p \in Payments : known'[p] = known[p]
  BY <1>2, CustodyAssumption
<1>4. HonestRow(r)
  BY CustodyAssumption
  DEF CustodyInv, CustodyTypeOK, AllHonest, HonestRow, NewWallet
<1>5. CustodyTypeOK'
  BY <1>2 DEF CustodyInv, CustodyTypeOK
<1>6. RowLocked' /\ CopiesFresh' /\ Thawed'
  BY <1>3 DEF CustodyInv, RowLocked, CopiesFresh, Thawed
<1>7. AllHonest'
  BY <1>2, <1>4 DEF CustodyInv, AllHonest, HonestRow
<1>8. QED
  BY <1>5, <1>6, <1>7 DEF CustodyInv

\* A decision: s is saved, with the amounts of an honest row r.
LEMMA DecideInv ==
  ASSUME CustodyInv, NEW s \in Status, NEW r \in WalletRow, HonestRow(r),
         holder = {}, row' = [r EXCEPT !.status = s], decided' = s,
         contended' = \E p \in Payments : pay[p] = "settling",
         UNCHANGED <<holder, pay, paid>>,
         known' \in [Payments \cup Admins -> WalletRow],
         \A p \in Payments : known'[p] = known[p],
         \A x \in Payments \cup Admins : known'[x] \in {known[x], NewWallet},
         open' \subseteq Admins
  PROVE  CustodyInv'
<1>1. /\ row' \in WalletRow /\ row'.status = s
      /\ row'.balance = r.balance /\ row'.reserved = r.reserved
  BY RowFields
<1>2. contended' \in BOOLEAN
  OBVIOUS
<1>3. CustodyTypeOK'
  BY <1>1, <1>2 DEF CustodyInv, CustodyTypeOK
<1>4. RowLocked' /\ CopiesFresh'
  BY DEF CustodyInv, RowLocked, CopiesFresh
<1>5. HonestRow(NewWallet)
  BY CustodyAssumption DEF CustodyInv, CustodyTypeOK, HonestRow, NewWallet
<1>6. AllHonest'
  BY <1>1, <1>5 DEF CustodyInv, AllHonest, HonestRow
<1>7. Thawed'
  BY <1>1 DEF Thawed
<1>8. QED
  BY <1>3, <1>4, <1>6, <1>7 DEF CustodyInv

LEMMA SaveFormInv ==
  ASSUME CustodyInv, NEW a \in Admins, NEW s \in Status, SaveForm(a, s)
  PROVE  CustodyInv'
<1>1. known[a] \in WalletRow /\ HonestRow(known[a])
  BY DEF CustodyInv, CustodyTypeOK, AllHonest
<1>2. /\ known' \in [Payments \cup Admins -> WalletRow]
      /\ \A y \in Payments \cup Admins :
            known'[y] = IF y = a THEN NewWallet ELSE known[y]
  BY NewWalletOK, ReadOK DEF CustodyInv, SaveForm, Forget
<1>3. /\ \A p \in Payments : known'[p] = known[p]
      /\ \A x \in Payments \cup Admins : known'[x] \in {known[x], NewWallet}
  BY <1>2, CustodyAssumption
<1>4. /\ holder = {} /\ row' = [known[a] EXCEPT !.status = s] /\ decided' = s
      /\ contended' = \E p \in Payments : pay[p] = "settling"
      /\ UNCHANGED <<holder, pay, paid>>
  BY DEF SaveForm, Posted
<1>5. open' \subseteq Admins
  BY DEF SaveForm, CustodyInv, CustodyTypeOK
<1>6. QED
  BY <1>1, <1>2, <1>3, <1>4, <1>5, DecideInv

LEMMA SetStatusInv ==
  ASSUME CustodyInv, NEW s \in Status, SetStatus(s)
  PROVE  CustodyInv'
<1>1. row \in WalletRow /\ HonestRow(row)
  BY DEF CustodyInv, CustodyTypeOK, AllHonest
<1>2. /\ holder = {} /\ row' = [row EXCEPT !.status = s] /\ decided' = s
      /\ contended' = \E p \in Payments : pay[p] = "settling"
      /\ UNCHANGED <<holder, pay, paid>>
  BY DEF SetStatus
<1>3. /\ known' \in [Payments \cup Admins -> WalletRow]
      /\ \A p \in Payments : known'[p] = known[p]
      /\ \A x \in Payments \cup Admins : known'[x] \in {known[x], NewWallet}
      /\ open' \subseteq Admins
  BY DEF SetStatus, CustodyInv, CustodyTypeOK
<1>4. QED
  BY <1>1, <1>2, <1>3, DecideInv

LEMMA CustodyNextInv == CustodyInv /\ [CustodyNext]_custodyVars => CustodyInv'
<1> SUFFICES ASSUME CustodyInv, [CustodyNext]_custodyVars PROVE CustodyInv'
  OBVIOUS
<1>1. ASSUME NEW p \in Payments, Allow(p) \/ Refuse(p) PROVE CustodyInv'
  BY <1>1, AllowInv DEF Allow, Refuse
<1>2. ASSUME NEW p \in Payments, ReserveRead(p) PROVE CustodyInv'
  BY <1>2, ReserveReadInv
<1>3. ASSUME NEW p \in Payments, ReserveSave(p) PROVE CustodyInv'
  BY <1>3, ReserveSaveInv
<1>4. ASSUME NEW p \in Payments, ReserveEnds(p) PROVE CustodyInv'
  BY <1>4, ReserveEndsInv
<1>5. ASSUME NEW p \in Payments, SettleRead(p) PROVE CustodyInv'
  BY <1>5, SettleReadInv
<1>6. ASSUME NEW p \in Payments, SettleSave(p) PROVE CustodyInv'
  BY <1>6, SettleSaveInv
<1>7. ASSUME NEW p \in Payments, SettleEnds(p) PROVE CustodyInv'
  BY <1>7, SettleEndsInv
<1>8. ASSUME NEW a \in Admins, OpenForm(a) PROVE CustodyInv'
  <2>1. open' \subseteq Admins
    BY <1>8 DEF OpenForm, CustodyInv, CustodyTypeOK
  <2>2. QED
    BY <1>8, <2>1, PageInv DEF OpenForm, Read
<1>9. ASSUME NEW a \in Admins, CloseForm(a) PROVE CustodyInv'
  <2>1. open' \subseteq Admins
    BY <1>9 DEF CloseForm, CustodyInv, CustodyTypeOK
  <2>2. QED
    BY <1>9, <2>1, PageInv DEF CloseForm, Forget
<1>10. ASSUME NEW a \in Admins, NEW s \in Status, SaveForm(a, s) PROVE CustodyInv'
  BY <1>10, SaveFormInv
<1>11. ASSUME NEW s \in Status, SetStatus(s) PROVE CustodyInv'
  BY <1>11, SetStatusInv
<1>12. CASE UNCHANGED custodyVars
  BY <1>12 DEF custodyVars, CustodyInv, CustodyTypeOK, RowLocked, CopiesFresh, AllHonest,
               HonestRow, Thawed
<1>13. QED
  BY <1>1, <1>2, <1>3, <1>4, <1>5, <1>6, <1>7, <1>8, <1>9, <1>10, <1>11, <1>12
  DEF CustodyNext

LEMMA CustodyInvariant == CustodySpec => []CustodyInv
BY CustodyInitInv, CustodyNextInv, PTL DEF CustodySpec

\* Type correctness of Custody.
THEOREM CustodyTypeCorrect == CustodySpec => []CustodyTypeOK
<1>1. CustodyInv => CustodyTypeOK
  BY DEF CustodyInv
<1>2. QED
  BY <1>1, CustodyInvariant, PTL

\* A status that was saved while no settlement was under way stays until an admin
\* saves another one (FreezeStays).
THEOREM FreezesStay == CustodySpec => []FreezeStays
<1>1. CustodyInv => FreezeStays
  BY DEF CustodyInv, Thawed, FreezeStays
<1>2. QED
  BY <1>1, CustodyInvariant, PTL

\* No mixture of payments and old pages reserves more than there is, or loses
\* more than was paid (NothingIsLost).
THEOREM NothingGetsLost == CustodySpec => []NothingIsLost
<1>1. CustodyInv => NothingIsLost
  BY DEF CustodyInv, AllHonest, HonestRow, NothingIsLost
<1>2. QED
  BY <1>1, CustodyInvariant, PTL
-----------------------------------------------------------------------------
(* Access                                                                    *)

\* Every pair of tokens has the claims of the login that began the session, and
\* an access token that is not gone expires AccessLife after it was renewed.
Tagged(s) ==
    /\ session[s].claims = entered[s]
    /\ session[s].access \in {0, renewed[s] + AccessLife}

AccessInv == AccessTypeOK /\ \A s \in Sessions : Tagged(s)

LEMMA NewAccountOK ==
  /\ NewAccount \in Claims
  /\ NoTokens \in Tokens /\ NoTokens.claims = NewAccount /\ NoTokens.access = 0
BY DEF NewAccount, NoTokens, Claims, Control, Tokens

LEMMA IssuedOK ==
  ASSUME AccessTypeOK, NEW c \in Claims
  PROVE  /\ Issued(c) \in Tokens
         /\ Issued(c).claims = c
         /\ Issued(c).access = hour + AccessLife
BY AccessAssumption DEF AccessTypeOK, Issued, Tokens

LEMMA AccessInitInv == AccessInit => AccessInv
BY NewAccountOK DEF AccessInit, AccessInv, AccessTypeOK, Person, Tagged

\* A session whose tokens, claims at its entry and time of issue are replaced.
LEMMA SessionInv ==
  ASSUME AccessInv, NEW s \in Sessions, NEW t \in Tokens, NEW c \in Claims,
         NEW n \in Nat,
         session' = [session EXCEPT ![s] = t],
         entered' = [entered EXCEPT ![s] = c],
         renewed' = [renewed EXCEPT ![s] = n],
         t.claims = c, t.access \in {0, n + AccessLife},
         UNCHANGED <<account, hour>>
  PROVE  AccessInv'
<1>1. AccessTypeOK'
  BY DEF AccessInv, AccessTypeOK
<1>2. \A u \in Sessions :
        /\ session'[u] = IF u = s THEN t ELSE session[u]
        /\ entered'[u] = IF u = s THEN c ELSE entered[u]
        /\ renewed'[u] = IF u = s THEN n ELSE renewed[u]
  BY DEF AccessInv, AccessTypeOK
<1>3. ASSUME NEW u \in Sessions PROVE Tagged(u)'
  <2>1. CASE u = s
    BY <1>2, <2>1 DEF Tagged
  <2>2. CASE u # s
    BY <1>2, <2>2 DEF Tagged, AccessInv
  <2>3. QED
    BY <2>1, <2>2
<1>4. QED
  BY <1>1, <1>3 DEF AccessInv

LEMMA EnterInv ==
  ASSUME AccessInv, NEW s \in Sessions, Enter(s)
  PROVE  AccessInv'
<1>1. account.claims \in Claims /\ hour \in Nat
  BY DEF AccessInv, AccessTypeOK, Person
<1>2. QED
  BY <1>1, IssuedOK, SessionInv DEF Enter, AccessInv

LEMMA RefreshInv ==
  ASSUME AccessInv, NEW s \in Sessions, Refresh(s)
  PROVE  AccessInv'
<1>1. /\ session[s].claims = entered[s] /\ entered[s] \in Claims /\ hour \in Nat
  BY DEF AccessInv, AccessTypeOK, Tagged
<1>2. entered' = [entered EXCEPT ![s] = entered[s]]
  BY DEF Refresh, AccessInv, AccessTypeOK
<1>3. session' = [session EXCEPT ![s] = Issued(entered[s])]
  BY <1>1 DEF Refresh
<1>4. /\ Issued(entered[s]) \in Tokens
      /\ Issued(entered[s]).claims = entered[s]
      /\ Issued(entered[s]).access = hour + AccessLife
  BY <1>1, IssuedOK DEF AccessInv
<1>5. renewed' = [renewed EXCEPT ![s] = hour] /\ UNCHANGED <<account, hour>>
  BY DEF Refresh
<1>6. QED
  BY <1>1, <1>2, <1>3, <1>4, <1>5, SessionInv

LEMMA LogOutInv ==
  ASSUME AccessInv, NEW s \in Sessions, LogOut(s)
  PROVE  AccessInv'
<1>1. /\ session' = [session EXCEPT ![s] = NoTokens]
      /\ entered' = [entered EXCEPT ![s] = NewAccount]
      /\ renewed' = [renewed EXCEPT ![s] = 0]
      /\ UNCHANGED <<account, hour>>
  BY DEF LogOut
<1>2. NoTokens.access \in {0, 0 + AccessLife} /\ 0 \in Nat
  BY NewAccountOK
<1>3. QED
  BY <1>1, <1>2, NewAccountOK, SessionInv

LEMMA AccessNextInv == AccessInv /\ [AccessNext]_accessVars => AccessInv'
<1> SUFFICES ASSUME AccessInv, [AccessNext]_accessVars PROVE AccessInv'
  OBVIOUS
<1>1. CASE NextHour
  BY <1>1 DEF NextHour, AccessInv, AccessTypeOK, Tagged
<1>2. ASSUME NEW r \in Person, ChangeAccount(r) PROVE AccessInv'
  BY <1>2 DEF ChangeAccount, AccessInv, AccessTypeOK, Tagged
<1>3. ASSUME NEW s \in Sessions, Enter(s) PROVE AccessInv'
  BY <1>3, EnterInv
<1>4. ASSUME NEW s \in Sessions, Refresh(s) PROVE AccessInv'
  BY <1>4, RefreshInv
<1>5. ASSUME NEW s \in Sessions, LogOut(s) PROVE AccessInv'
  BY <1>5, LogOutInv
<1>6. CASE UNCHANGED accessVars
  BY <1>6 DEF accessVars, AccessInv, AccessTypeOK, Tagged
<1>7. QED
  BY <1>1, <1>2, <1>3, <1>4, <1>5, <1>6 DEF AccessNext

LEMMA AccessInvariant == AccessSpec => []AccessInv
BY AccessInitInv, AccessNextInv, PTL DEF AccessSpec

\* Type correctness of Access.
THEOREM AccessTypeCorrect == AccessSpec => []AccessTypeOK
<1>1. AccessInv => AccessTypeOK
  BY DEF AccessInv
<1>2. QED
  BY <1>1, AccessInvariant, PTL

\* Rows that are shown are the bearer's own, unless he is privileged or they are
\* statements or rates, which nobody owns.
LEMMA ShownOwn ==
  ASSUME NEW c \in Claims, NEW r \in Demands, Shown(c, r), ~Super(c), r.kind # "profile"
  PROVE  r.own \/ r.kind \in {"statement", "rate"}
<1>1. r.kind \in Objects
  BY DEF Demands
<1>2. c.control # "admin"
  BY DEF Super
<1>3. CASE r.kind \in {"wallet", "flag"}
  BY <1>3 DEF Shown, WalletRows, FlagRows
<1>4. CASE r.kind \in {"spending", "transaction", "refund", "endpoint", "event"}
  BY <1>2, <1>4
  DEF Shown, SpendingRows, TransactionRows, RefundRows, EndpointRows, EventRows
<1>5. CASE r.kind \in {"statement", "rate", "account"}
  BY <1>5 DEF Shown, AccountRows
<1>6. QED
  BY <1>1, <1>3, <1>4, <1>5 DEF Objects

\* What the claims alone say of a request that is served.
LEMMA ServedByClaims ==
  ASSUME NEW c \in Claims, NEW r \in Demands,
         \/ r.act = "list" /\ Lists(c, r)
         \/ r.act = "open" /\ Opens(c, r)
         \/ r.act = "make" /\ Makes(c, r)
         \/ r.act = "decide" /\ Decides(c, r),
         ~Super(c)
  PROVE  /\ r.act = "decide" => r.kind = "flag"
         /\ r.own \/ Common(r)
         /\ c.verified \/ Unasked(r)
<1>1. Permitted(c) => c.verified
  BY DEF Permitted
<1>2. CASE r.act = "list" /\ Lists(c, r)
  <2>1. r.kind # "profile"
    BY <1>2 DEF Lists
  <2>2. QED
    BY <1>1, <1>2, <2>1, ShownOwn DEF Lists, Common, Unasked
<1>3. CASE Opens(c, r) /\ (r.act = "open" \/ (r.act = "decide" /\ r.kind = "flag"))
  <2>1. c.control # "admin"
    BY DEF Super
  <2>2. r.own \/ (r.kind = "rate" /\ r.act = "open")
    <3>1. CASE r.kind = "spending"
      BY <1>3, <3>1, ShownOwn DEF Opens
    <3>2. CASE r.kind = "rate"
      BY <1>3, <3>2
    <3>3. CASE r.kind \notin {"spending", "rate"}
      BY <1>3, <2>1, <3>3 DEF Opens, MayTouch
    <3>4. QED
      BY <3>1, <3>2, <3>3
  <2>3. c.verified \/ r.kind = "spending"
    BY <1>1, <1>3 DEF Opens
  <2>4. QED
    BY <1>3, <2>2, <2>3 DEF Common, Unasked
<1>4. CASE r.act = "make" /\ Makes(c, r)
  BY <1>1, <1>4 DEF Makes, Unasked
<1>5. CASE r.act = "decide" /\ Decides(c, r)
  <2>1. r.kind = "flag" /\ Opens(c, r)
    BY <1>5 DEF Decides, Super
  <2>2. QED
    BY <1>3, <1>5, <2>1
<1>6. QED
  BY <1>2, <1>3, <1>4, <1>5

\* Through any chain of refreshes, and whatever becomes of the account, a request
\* is served on young tokens and within what the login found (ServedAsEntered).
THEOREM AllServedAsEntered == AccessSpec => []ServedAsEntered
<1>1. ASSUME AccessInv, NEW s \in Sessions, NEW r \in Demands, Serves(s, r)
      PROVE  /\ hour < renewed[s] + AccessLife
             /\ r.kind \in {"profile", "account"} => account.active
             /\ \/ Super(entered[s])
                \/ /\ r.act = "decide" => r.kind = "flag"
                   /\ r.own \/ Common(r)
                   /\ entered[s].verified \/ Unasked(r)
  <2>1. /\ session[s].claims = entered[s] /\ entered[s] \in Claims
        /\ session[s].access \in {0, renewed[s] + AccessLife}
        /\ hour \in Nat /\ renewed[s] \in Nat
    BY <1>1 DEF AccessInv, AccessTypeOK, Tagged
  <2>2. hour < renewed[s] + AccessLife
    BY <1>1, <2>1 DEF Serves, Alive
  <2>3. r.kind \in {"profile", "account"} => account.active
    BY <1>1 DEF Serves, Admits, Door, IdentityDoor
  <2>4. \/ r.act = "list" /\ Lists(entered[s], r)
        \/ r.act = "open" /\ Opens(entered[s], r)
        \/ r.act = "make" /\ Makes(entered[s], r)
        \/ r.act = "decide" /\ Decides(entered[s], r)
    <3>1. r.act \in {"list", "open", "make", "decide"}
      BY DEF Demands
    <3>2. QED
      BY <1>1, <2>1, <3>1 DEF Serves
  <2>5. QED
    BY <2>1, <2>2, <2>3, <2>4, ServedByClaims
<1>2. AccessInv => ServedAsEntered
  BY <1>1 DEF ServedAsEntered
<1>3. QED
  BY <1>2, AccessInvariant, PTL

-----------------------------------------------------------------------------
(* Placement                                                                 *)

\* A shard holds one wallet of the user.
OnePerShard == \A r, q \in rows : r.db = q.db => r = q

\* A request that has found or inserted the wallet has that of its shard.
CallsOK ==
    \A c \in Callers :
        call[c] \in {"limiting", "answering"} =>
            [id |-> made[c], db |-> route[c]] \in rows

ToldOK == \A t \in told : [id |-> t.id, db |-> t.route] \in rows

\* Every wallet has its limit, or had a creator who does not insert it.
LimitsOK == \A r \in rows : r.id \in limited \cup orphaned \cup Unfinished(Callers)

PlacementInv ==
    /\ PlacementTypeOK
    /\ IsFiniteSet(rows)
    /\ OnePerShard
    /\ CallsOK
    /\ ToldOK
    /\ LimitsOK

LEMMA NewIdOK == PlacementInv => NewId \in Nat
BY FS_CardinalityType DEF PlacementInv, NewId

LEMMA PlacementInitInv == PlacementInit => PlacementInv
<1> SUFFICES ASSUME PlacementInit PROVE PlacementInv
  OBVIOUS
<1>1. AnyServer \in Servers
  BY PlacementAssumption DEF AnyServer
<1>2. PlacementTypeOK
  BY <1>1 DEF PlacementInit, PlacementTypeOK, Shards, Calls
<1>3. IsFiniteSet(rows)
  BY FS_EmptySet DEF PlacementInit
<1>4. OnePerShard /\ CallsOK /\ ToldOK /\ LimitsOK
  BY DEF PlacementInit, OnePerShard, CallsOK, ToldOK, LimitsOK
<1>5. QED
  BY <1>2, <1>3, <1>4 DEF PlacementInv

\* Requests that are over stay well typed and have nothing to answer.
LEMMA OverOK ==
  ASSUME PlacementInv, NEW C \in SUBSET Callers, Over(C),
         UNCHANGED <<rows, limited>>, told' \subseteq [route : Shards, id : Nat],
         home' \in [Servers -> Shards], orphaned' \subseteq Nat
  PROVE  /\ PlacementTypeOK'
         /\ CallsOK'
         /\ \A c \in Callers : /\ c \notin C => call'[c] = call[c] /\ made'[c] = made[c]
                               /\ c \in C => call'[c] = "idle"
<1>1. AnyServer \in Servers
  BY PlacementAssumption DEF AnyServer
<1>2. PlacementTypeOK'
  BY <1>1 DEF PlacementInv, PlacementTypeOK, Over, Shards, Calls
<1>3. CallsOK'
  BY DEF PlacementInv, PlacementTypeOK, CallsOK, Over
<1>4. QED
  BY <1>2, <1>3 DEF Over

LEMMA CreateInternalInv ==
  ASSUME PlacementInv, NEW c \in Callers, NEW s \in Servers, NEW currency,
         CreateInternal(c, s, currency)
  PROVE  PlacementInv'
<1>1. home[s] \in Shards
  BY DEF PlacementInv, PlacementTypeOK
<1>2. PlacementTypeOK'
  BY <1>1 DEF PlacementInv, PlacementTypeOK, CreateInternal, Calls
<1>3. \A d \in Callers : /\ call'[d] = IF d = c THEN "finding" ELSE call[d]
                         /\ d # c => route'[d] = route[d]
                         /\ made'[d] = made[d]
  BY DEF PlacementInv, PlacementTypeOK, CreateInternal
<1>4. IsFiniteSet(rows)' /\ OnePerShard' /\ ToldOK'
  BY DEF PlacementInv, CreateInternal, OnePerShard, ToldOK
<1>5. CallsOK'
  BY <1>3 DEF PlacementInv, CallsOK, CreateInternal
<1>6. LimitsOK'
  <2>1. \A n : n \in Unfinished(Callers) => n \in Unfinished(Callers)'
    BY <1>3 DEF Unfinished, CreateInternal
  <2>2. QED
    BY <2>1 DEF PlacementInv, LimitsOK, CreateInternal
<1>7. QED
  BY <1>2, <1>4, <1>5, <1>6 DEF PlacementInv

LEMMA FindWalletInv ==
  ASSUME PlacementInv, NEW c \in Callers, FindWallet(c)
  PROVE  PlacementInv'
<1>1. PICK r \in rows : r.db = route[c] /\ made' = [made EXCEPT ![c] = r.id]
  BY DEF FindWallet, In
<1>2. r.id \in Nat /\ [id |-> r.id, db |-> route[c]] = r
  BY <1>1 DEF PlacementInv, PlacementTypeOK
<1>3. PlacementTypeOK'
  BY <1>1, <1>2 DEF PlacementInv, PlacementTypeOK, FindWallet, Calls
<1>4. \A d \in Callers : /\ call'[d] = IF d = c THEN "answering" ELSE call[d]
                         /\ made'[d] = IF d = c THEN r.id ELSE made[d]
                         /\ route'[d] = route[d]
  BY <1>1 DEF PlacementInv, PlacementTypeOK, FindWallet
<1>5. IsFiniteSet(rows)' /\ OnePerShard' /\ ToldOK'
  BY DEF PlacementInv, FindWallet, OnePerShard, ToldOK
<1>6. CallsOK'
  BY <1>2, <1>4 DEF PlacementInv, CallsOK, FindWallet
<1>7. LimitsOK'
  <2>1. \A n : n \in Unfinished(Callers) => n \in Unfinished(Callers)'
    BY <1>4 DEF Unfinished, FindWallet
  <2>2. QED
    BY <2>1 DEF PlacementInv, LimitsOK, FindWallet
<1>8. QED
  BY <1>3, <1>5, <1>6, <1>7 DEF PlacementInv

\* A wallet that is inserted is the only one of its shard.
LEMMA InsertedOK ==
  ASSUME PlacementInv, NEW db \in Shards, In(db) = {},
         rows' = rows \cup {[id |-> NewId, db |-> db]}
  PROVE  /\ rows' \subseteq [id : Nat, db : Shards]
         /\ IsFiniteSet(rows')
         /\ OnePerShard'
<1>1. NewId \in Nat
  BY NewIdOK
<1>2. rows' \subseteq [id : Nat, db : Shards]
  BY <1>1 DEF PlacementInv, PlacementTypeOK
<1>3. IsFiniteSet(rows')
  BY FS_AddElement DEF PlacementInv
<1>4. OnePerShard'
  BY DEF PlacementInv, OnePerShard, In
<1>5. QED
  BY <1>2, <1>3, <1>4

LEMMA InsertWalletInv ==
  ASSUME PlacementInv, NEW c \in Callers, InsertWallet(c)
  PROVE  PlacementInv'
<1>1. route[c] \in Shards /\ NewId \in Nat
  BY NewIdOK DEF PlacementInv, PlacementTypeOK
<1>2. /\ In(route[c]) = {} /\ rows' = rows \cup {[id |-> NewId, db |-> route[c]]}
      /\ UNCHANGED <<home, limited, at, route, told, orphaned>>
  BY DEF InsertWallet
<1>3. /\ rows' \subseteq [id : Nat, db : Shards] /\ IsFiniteSet(rows)'
      /\ OnePerShard'
  BY <1>1, <1>2, InsertedOK
<1>4. \A d \in Callers : /\ call'[d] = IF d = c THEN "limiting" ELSE call[d]
                         /\ made'[d] = IF d = c THEN NewId ELSE made[d]
  BY DEF PlacementInv, PlacementTypeOK, InsertWallet
<1>5. PlacementTypeOK'
  <2>1. call' \in [Callers -> Calls] /\ made' \in [Callers -> Nat]
    BY <1>1 DEF PlacementInv, PlacementTypeOK, InsertWallet, Calls
  <2>2. QED
    BY <1>2, <1>3, <2>1 DEF PlacementInv, PlacementTypeOK
<1>6. CallsOK'
  BY <1>2, <1>4 DEF PlacementInv, CallsOK
<1>7. ToldOK'
  BY <1>2 DEF PlacementInv, ToldOK
<1>8. LimitsOK'
  <2>1. NewId \in Unfinished(Callers)'
    BY <1>4 DEF Unfinished
  <2>2. call[c] = "finding"
    BY DEF InsertWallet
  <2>3. \A n : n \in Unfinished(Callers) => n \in Unfinished(Callers)'
    BY <1>4, <2>2 DEF Unfinished
  <2>4. QED
    BY <1>2, <2>1, <2>3 DEF PlacementInv, LimitsOK
<1>9. QED
  BY <1>3, <1>5, <1>6, <1>7, <1>8 DEF PlacementInv

LEMMA CreateLimitInv ==
  ASSUME PlacementInv, NEW c \in Callers, CreateLimit(c)
  PROVE  PlacementInv'
<1>1. /\ call[c] = "limiting" /\ limited' = limited \cup {made[c]}
      /\ UNCHANGED <<home, rows, at, route, made, told, orphaned>>
  BY DEF CreateLimit
<1>2. \A d \in Callers : call'[d] = IF d = c THEN "answering" ELSE call[d]
  BY DEF PlacementInv, PlacementTypeOK, CreateLimit
<1>3. PlacementTypeOK'
  <2>1. call' \in [Callers -> Calls]
    BY DEF PlacementInv, PlacementTypeOK, CreateLimit, Calls
  <2>2. limited' \subseteq Nat
    BY <1>1 DEF PlacementInv, PlacementTypeOK
  <2>3. QED
    BY <1>1, <2>1, <2>2 DEF PlacementInv, PlacementTypeOK
<1>4. IsFiniteSet(rows)' /\ OnePerShard' /\ ToldOK'
  BY <1>1 DEF PlacementInv, OnePerShard, ToldOK
<1>5. CallsOK'
  BY <1>1, <1>2 DEF PlacementInv, CallsOK
<1>6. LimitsOK'
  <2>1. \A n : n \in Unfinished(Callers) => n \in Unfinished(Callers)' \/ n \in limited'
    BY <1>1, <1>2 DEF Unfinished
  <2>2. QED
    BY <1>1, <2>1 DEF PlacementInv, LimitsOK
<1>7. QED
  BY <1>3, <1>4, <1>5, <1>6 DEF PlacementInv

LEMMA AnswerCallerInv ==
  ASSUME PlacementInv, NEW c \in Callers, AnswerCaller(c)
  PROVE  PlacementInv'
<1>1. /\ call[c] = "answering" /\ Over({c})
      /\ told' = told \cup {[route |-> route[c], id |-> made[c]]}
      /\ UNCHANGED <<home, rows, limited, orphaned>>
  BY DEF AnswerCaller
<1>2. [id |-> made[c], db |-> route[c]] \in rows
  BY <1>1 DEF PlacementInv, CallsOK
<1>3. /\ told' \subseteq [route : Shards, id : Nat]
      /\ home' \in [Servers -> Shards] /\ orphaned' \subseteq Nat
  BY <1>1 DEF PlacementInv, PlacementTypeOK
<1>4. /\ PlacementTypeOK' /\ CallsOK'
      /\ \A d \in Callers : d # c => call'[d] = call[d] /\ made'[d] = made[d]
  BY <1>1, <1>3, OverOK
<1>5. IsFiniteSet(rows)' /\ OnePerShard' /\ ToldOK'
  BY <1>1, <1>2 DEF PlacementInv, OnePerShard, ToldOK
<1>6. LimitsOK'
  <2>1. \A n : n \in Unfinished(Callers) => n \in Unfinished(Callers)'
    BY <1>1, <1>4 DEF Unfinished
  <2>2. QED
    BY <1>1, <2>1 DEF PlacementInv, LimitsOK
<1>7. QED
  BY <1>4, <1>5, <1>6 DEF PlacementInv

\* Requests that end without an answer: wallets of theirs stay without a limit.
LEMMA EndInv ==
  ASSUME PlacementInv, NEW C \in SUBSET Callers, Over(C),
         home' \in [Servers -> Shards],
         orphaned' = orphaned \cup Unfinished(C), UNCHANGED <<rows, limited, told>>
  PROVE  PlacementInv'
<1>1. orphaned' \subseteq Nat
  BY DEF PlacementInv, PlacementTypeOK, Unfinished
<1>2. told' \subseteq [route : Shards, id : Nat]
  BY DEF PlacementInv, PlacementTypeOK
<1>3. /\ PlacementTypeOK' /\ CallsOK'
      /\ \A c \in Callers : c \notin C => call'[c] = call[c] /\ made'[c] = made[c]
  BY <1>1, <1>2, OverOK
<1>4. IsFiniteSet(rows)' /\ OnePerShard' /\ ToldOK'
  BY DEF PlacementInv, OnePerShard, ToldOK
<1>5. LimitsOK'
  <2>1. \A n : n \in Unfinished(Callers) =>
               n \in Unfinished(Callers)' \/ n \in Unfinished(C)
    BY <1>3 DEF Unfinished
  <2>2. QED
    BY <2>1 DEF PlacementInv, LimitsOK
<1>6. QED
  BY <1>3, <1>4, <1>5 DEF PlacementInv

LEMMA AddWalletInv ==
  ASSUME PlacementInv, NEW db \in Shards, AddWallet(db)
  PROVE  PlacementInv'
<1>1. /\ In(db) = {} /\ rows' = rows \cup {[id |-> NewId, db |-> db]}
      /\ orphaned' = orphaned \cup {NewId}
      /\ UNCHANGED <<home, limited, call, at, route, made, told>>
  BY DEF AddWallet, calling
<1>2. /\ rows' \subseteq [id : Nat, db : Shards] /\ IsFiniteSet(rows)'
      /\ OnePerShard'
  BY <1>1, InsertedOK
<1>3. orphaned' \subseteq Nat
  BY <1>1, NewIdOK DEF PlacementInv, PlacementTypeOK
<1>4. PlacementTypeOK'
  BY <1>1, <1>2, <1>3 DEF PlacementInv, PlacementTypeOK
<1>5. CallsOK' /\ ToldOK'
  BY <1>1 DEF PlacementInv, CallsOK, ToldOK
<1>6. LimitsOK'
  BY <1>1 DEF PlacementInv, LimitsOK, Unfinished
<1>7. QED
  BY <1>2, <1>4, <1>5, <1>6 DEF PlacementInv

LEMMA AddLimitInv ==
  ASSUME PlacementInv, NEW r \in rows, AddLimit(r)
  PROVE  PlacementInv'
<1>1. /\ limited' = limited \cup {r.id}
      /\ UNCHANGED <<home, rows, call, at, route, made, told, orphaned>>
  BY DEF AddLimit, calling
<1>2. PlacementTypeOK'
  BY <1>1 DEF PlacementInv, PlacementTypeOK
<1>3. IsFiniteSet(rows)' /\ OnePerShard' /\ CallsOK' /\ ToldOK'
  BY <1>1 DEF PlacementInv, OnePerShard, CallsOK, ToldOK
<1>4. LimitsOK'
  BY <1>1 DEF PlacementInv, LimitsOK, Unfinished
<1>5. QED
  BY <1>2, <1>3, <1>4 DEF PlacementInv

LEMMA PlacementNextInv == PlacementInv /\ [PlacementNext]_placementVars => PlacementInv'
<1> SUFFICES ASSUME PlacementInv, [PlacementNext]_placementVars PROVE PlacementInv'
  OBVIOUS
<1>1. ASSUME NEW c \in Callers, NEW s \in Servers, NEW currency \in Asked,
             CreateInternal(c, s, currency)
      PROVE  PlacementInv'
  BY <1>1, CreateInternalInv
<1>2. ASSUME NEW c \in Callers, FindWallet(c) PROVE PlacementInv'
  BY <1>2, FindWalletInv
<1>3. ASSUME NEW c \in Callers, InsertWallet(c) PROVE PlacementInv'
  BY <1>3, InsertWalletInv
<1>4. ASSUME NEW c \in Callers, CreateLimit(c) PROVE PlacementInv'
  BY <1>4, CreateLimitInv
<1>5. ASSUME NEW c \in Callers, AnswerCaller(c) PROVE PlacementInv'
  BY <1>5, AnswerCallerInv
<1>6. ASSUME NEW c \in Callers, CallFails(c) PROVE PlacementInv'
  <2>1. {c} \in SUBSET Callers /\ home' \in [Servers -> Shards]
    BY <1>6 DEF CallFails, PlacementInv, PlacementTypeOK
  <2>2. QED
    BY <1>6, <2>1, EndInv DEF CallFails
<1>7. ASSUME NEW s \in Servers, NEW db \in Shards, Restart(s, db) PROVE PlacementInv'
  <2> DEFINE lost == {c \in Callers : at[c] = s}
  <2>1. /\ lost \in SUBSET Callers /\ Over(lost)
        /\ orphaned' = orphaned \cup Unfinished(lost)
        /\ UNCHANGED <<rows, limited, told>>
    BY <1>7 DEF Restart
  <2>2. home' \in [Servers -> Shards]
    BY <1>7 DEF Restart, PlacementInv, PlacementTypeOK
  <2> HIDE DEF lost
  <2>3. QED
    BY <2>1, <2>2, EndInv
<1>8. ASSUME NEW db \in Shards, AddWallet(db) PROVE PlacementInv'
  BY <1>8, AddWalletInv
<1>9. ASSUME NEW r \in rows, AddLimit(r) PROVE PlacementInv'
  BY <1>9, AddLimitInv
<1>10. CASE UNCHANGED placementVars
  BY <1>10 DEF placementVars, calling, PlacementInv, PlacementTypeOK, OnePerShard,
               CallsOK, ToldOK, LimitsOK, Unfinished
<1>11. QED
  BY <1>1, <1>2, <1>3, <1>4, <1>5, <1>6, <1>7, <1>8, <1>9, <1>10 DEF PlacementNext

LEMMA PlacementInvariant == PlacementSpec => []PlacementInv
BY PlacementInitInv, PlacementNextInv, PTL DEF PlacementSpec

\* Type correctness of Placement.
THEOREM PlacementTypeCorrect == PlacementSpec => []PlacementTypeOK
<1>1. PlacementInv => PlacementTypeOK
  BY DEF PlacementInv
<1>2. QED
  BY <1>1, PlacementInvariant, PTL

\* Calls to create the wallet that race, fail half-way and are repeated are told
\* one wallet per shard, and no living creator forgets a limit
\* (CreationIsRepeatable).
THEOREM CreationRepeatable == PlacementSpec => []CreationIsRepeatable
<1>1. ASSUME PlacementInv PROVE CreationIsRepeatable
  <2>1. \A t, u \in told : t.route = u.route => t.id = u.id
    <3>1. SUFFICES ASSUME NEW t \in told, NEW u \in told, t.route = u.route
                   PROVE  t.id = u.id
      OBVIOUS
    <3>2. [id |-> t.id, db |-> t.route] = [id |-> u.id, db |-> u.route]
      BY <1>1, <3>1 DEF PlacementInv, ToldOK, OnePerShard
    <3>3. QED
      BY <3>2
  <2>2. QED
    BY <1>1, <2>1 DEF PlacementInv, ToldOK, LimitsOK, CreationIsRepeatable
<1>2. QED
  BY <1>1, PlacementInvariant, PTL

-----------------------------------------------------------------------------
(* Refunds: the invariant                                                    *)

\* No two requests work on one row, or are to insert one.
Sole ==
    \A a, b \in Agents :
        agent[a] # "idle" /\ agent[b] # "idle" /\ subject[a] = subject[b] => a = b

\* What a request that is alone with its row has read is true when it saves.
AgentOK(a) ==
    LET i == subject[a]
    IN  /\ agent[a] = "requesting" => i = 0 /\ Free
        /\ agent[a] \notin {"idle", "requesting"} => i \in DOMAIN refunds
        /\ agent[a] \in {"approving", "editing", "deleting"} => seen[a] = refunds[i]
        /\ agent[a] \in {"approving", "linking"} => refunds[i].status = "requested"
        /\ agent[a] = "linking" =>
              /\ seen[a].status = "approved"
              /\ seen[a].transfer \in DOMAIN moves
              /\ moves[seen[a].transfer] = i
        /\ agent[a] \in {"processing", "completing"} =>
              /\ refunds[i].status = "approved"
              /\ seen[a].status = "completed"
              /\ seen[a].transfer = refunds[i].transfer

\* A row as the i-th refund: it has its own transfer once it was approved.
RowOK(i, entry) ==
    /\ entry.status \in {"requested", "deleted"} => entry.transfer = 0
    /\ entry.status \in {"approved", "completed"} => entry.transfer # 0
    /\ entry.transfer # 0 => entry.transfer \in DOMAIN moves /\ moves[entry.transfer] = i

\* A transfer was created for a refund that names it, or is about to.
MoveOK(t) ==
    /\ moves[t] \in DOMAIN refunds
    /\ \/ refunds[moves[t]].transfer = t
       \/ \E a \in Agents :
             agent[a] = "linking" /\ subject[a] = moves[t] /\ seen[a].transfer = t

OneStanding ==
    \A i, j \in DOMAIN refunds :
        Standing(refunds[i]) /\ Standing(refunds[j]) => i = j

Clear ==
    /\ Sole
    /\ \A a \in Agents : AgentOK(a)
    /\ \A i \in DOMAIN refunds : RowOK(i, refunds[i])
    /\ \A t \in DOMAIN moves : MoveOK(t)
    /\ OneStanding

RefundsInv == RefundsTypeOK /\ (~muddled => Clear)

-----------------------------------------------------------------------------
(* Refunds: lemmas                                                           *)

LEMMA RowsAre ==
  ASSUME NEW S, NEW q \in Seq(S)
  PROVE  /\ Len(q) \in Nat
         /\ DOMAIN q = 1..Len(q)
         /\ 0 \notin DOMAIN q
         /\ \A i \in DOMAIN q : q[i] \in S
OBVIOUS

LEMMA AppendedOK ==
  ASSUME NEW S, NEW q \in Seq(S), NEW e \in S
  PROVE  /\ Append(q, e) \in Seq(S)
         /\ DOMAIN Append(q, e) = DOMAIN q \cup {Len(q) + 1}
         /\ Len(q) + 1 \notin DOMAIN q
         /\ \A i \in DOMAIN q : Append(q, e)[i] = q[i]
         /\ Append(q, e)[Len(q) + 1] = e
OBVIOUS

LEMMA ReplacedOK ==
  ASSUME NEW S, NEW q \in Seq(S), NEW n \in Nat, NEW e \in S
  PROVE  /\ [q EXCEPT ![n] = e] \in Seq(S)
         /\ DOMAIN [q EXCEPT ![n] = e] = DOMAIN q
         /\ \A i \in DOMAIN q : [q EXCEPT ![n] = e][i] = IF i = n THEN e ELSE q[i]
<1>1. Len(q) \in Nat /\ DOMAIN q = 1..Len(q) /\ q \in [1..Len(q) -> S]
  OBVIOUS
<1> DEFINE r == [q EXCEPT ![n] = e]
<1>2. /\ r \in [1..Len(q) -> S] /\ DOMAIN r = DOMAIN q
      /\ \A i \in DOMAIN q : r[i] = IF i = n THEN e ELSE q[i]
  BY <1>1, Zenon
<1>3. \A f \in [1..Len(q) -> S] : f \in Seq(S)
  BY <1>1
<1>4. QED
  BY <1>2, <1>3, Zenon

LEMMA RowsOfRefunds ==
  /\ New \in Refund /\ Gone \in Refund
  /\ \A entry \in Refund : \A s \in States \cup {"deleted"} :
        /\ [entry EXCEPT !.status = s] \in Refund
        /\ [entry EXCEPT !.status = s].status = s
        /\ [entry EXCEPT !.status = s].transfer = entry.transfer
BY DEF New, Gone, Refund, States

-----------------------------------------------------------------------------
(* Refunds: each step preserves the invariant                                *)

LEMMA RefundsInitInv == RefundsInit => RefundsInv
<1> SUFFICES ASSUME RefundsInit PROVE RefundsInv
  OBVIOUS
<1>1. RefundsTypeOK
  <2>1. tables \subseteq Databases
    BY DEF RefundsInit, Months, Databases
  <2>2. refunds \in Seq(Refund) /\ moves \in Seq(Nat)
    BY DEF RefundsInit
  <2>3. /\ agent \in [Agents -> AgentSteps] /\ subject \in [Agents -> Nat]
        /\ seen \in [Agents -> Refund] /\ muddled \in BOOLEAN
    BY RowsOfRefunds DEF RefundsInit, AgentSteps
  <2>4. QED
    BY <2>1, <2>2, <2>3 DEF RefundsTypeOK
<1>2. Clear
  BY DEF RefundsInit, Clear, Sole, AgentOK, OneStanding
<1>3. QED
  BY <1>1, <1>2 DEF RefundsInv

\* A request begins.
LEMMA BeginInv ==
  ASSUME RefundsInv, NEW a \in Agents, NEW to \in AgentSteps, NEW i \in Nat,
         NEW copied \in Refund, Begin(a, to, i, copied),
         UNCHANGED <<tables, refunds, moves>>,
         to \in {"requesting", "approving", "processing", "editing", "deleting"},
         to = "requesting" => i = 0 /\ Free,
         to # "requesting" => i \in DOMAIN refunds,
         to \in {"approving", "editing", "deleting"} => copied = refunds[i],
         to = "approving" => refunds[i].status = "requested",
         to = "processing" =>
            /\ refunds[i].status = "approved"
            /\ copied.status = "completed"
            /\ copied.transfer = refunds[i].transfer
  PROVE  RefundsInv'
<1>1. /\ agent[a] = "idle"
      /\ agent' \in [Agents -> AgentSteps]
      /\ subject' \in [Agents -> Nat]
      /\ seen' \in [Agents -> Refund]
      /\ \A b \in Agents : /\ agent'[b] = IF b = a THEN to ELSE agent[b]
                           /\ subject'[b] = IF b = a THEN i ELSE subject[b]
                           /\ seen'[b] = IF b = a THEN copied ELSE seen[b]
  BY DEF RefundsInv, RefundsTypeOK, Begin
<1>2. RefundsTypeOK'
  <2>1. muddled' \in BOOLEAN
    BY DEF Begin
  <2>2. QED
    BY <1>1, <2>1 DEF RefundsInv, RefundsTypeOK
<1>3. ASSUME ~muddled' PROVE Clear'
  <2>1. ~Others(a, i) /\ Clear
    BY <1>3 DEF Begin, RefundsInv
  <2>2. Sole'
    BY <1>1, <2>1 DEF Others, Clear, Sole
  <2>3. ASSUME NEW b \in Agents PROVE AgentOK(b)'
    <3>1. CASE b = a
      BY <1>1, <3>1 DEF AgentOK, Free
    <3>2. CASE b # a
      BY <1>1, <2>1, <3>2 DEF AgentOK, Free, Clear
    <3>3. QED
      BY <3>1, <3>2
  <2>4. ASSUME NEW t \in DOMAIN moves PROVE MoveOK(t)'
    BY <1>1, <2>1 DEF MoveOK, Clear
  <2>5. QED
    BY <2>1, <2>2, <2>3, <2>4 DEF Clear, RowOK, OneStanding
<1>4. QED
  BY <1>2, <1>3 DEF RefundsInv

LEMMA FinishOK ==
  ASSUME RefundsTypeOK, NEW a \in Agents, Finish(a)
  PROVE  /\ agent' \in [Agents -> AgentSteps]
         /\ subject' \in [Agents -> Nat]
         /\ seen' \in [Agents -> Refund]
         /\ agent'[a] = "idle"
         /\ \A b \in Agents : b # a => /\ agent'[b] = agent[b]
                                       /\ subject'[b] = subject[b]
                                       /\ seen'[b] = seen[b]
BY RowsOfRefunds DEF RefundsTypeOK, Finish, AgentSteps

\* A request is over, and has saved nothing.
LEMMA AgentFailsInv ==
  ASSUME RefundsInv, NEW a \in Agents, AgentFails(a)
  PROVE  RefundsInv'
<1>1. /\ agent[a] # "idle"
      /\ muddled' = (muddled \/ agent[a] = "linking")
      /\ Finish(a)
      /\ UNCHANGED <<tables, refunds, moves>>
  BY DEF AgentFails
<1>2. /\ agent' \in [Agents -> AgentSteps]
      /\ subject' \in [Agents -> Nat]
      /\ seen' \in [Agents -> Refund]
      /\ agent'[a] = "idle"
      /\ \A b \in Agents : b # a => /\ agent'[b] = agent[b]
                                    /\ subject'[b] = subject[b]
                                    /\ seen'[b] = seen[b]
  BY <1>1, FinishOK DEF RefundsInv
<1>3. RefundsTypeOK'
  <2>1. muddled' \in BOOLEAN
    BY <1>1
  <2>2. QED
    BY <1>1, <1>2, <2>1 DEF RefundsInv, RefundsTypeOK
<1>4. ASSUME ~muddled' PROVE Clear'
  <2>1. Clear /\ agent[a] # "linking"
    BY <1>1, <1>4 DEF RefundsInv
  <2>2. Sole'
    BY <1>2, <2>1 DEF Clear, Sole
  <2>3. ASSUME NEW b \in Agents PROVE AgentOK(b)'
    <3>1. CASE b = a
      BY <1>2, <3>1 DEF AgentOK
    <3>2. CASE b # a
      BY <1>1, <1>2, <2>1, <3>2 DEF AgentOK, Free, Clear
    <3>3. QED
      BY <3>1, <3>2
  <2>4. ASSUME NEW t \in DOMAIN moves PROVE MoveOK(t)'
    BY <1>1, <1>2, <2>1 DEF MoveOK, Clear
  <2>5. QED
    BY <1>1, <2>1, <2>2, <2>3, <2>4 DEF Clear, RowOK, OneStanding
<1>5. QED
  BY <1>3, <1>4 DEF RefundsInv

\* A refund is inserted: nothing stood in its way.
LEMMA CreateRefundInv ==
  ASSUME RefundsInv, NEW a \in Agents, CreateRefund(a)
  PROVE  RefundsInv'
<1>1. /\ agent[a] = "requesting" /\ refunds' = Append(refunds, New) /\ Finish(a)
      /\ UNCHANGED <<tables, moves, muddled>>
  BY DEF CreateRefund
<1>2. /\ agent' \in [Agents -> AgentSteps]
      /\ subject' \in [Agents -> Nat]
      /\ seen' \in [Agents -> Refund]
      /\ agent'[a] = "idle"
      /\ \A b \in Agents : b # a => /\ agent'[b] = agent[b]
                                    /\ subject'[b] = subject[b]
                                    /\ seen'[b] = seen[b]
  BY <1>1, FinishOK DEF RefundsInv
<1> DEFINE n == Len(refunds) + 1
<1>3. /\ refunds' \in Seq(Refund)
      /\ DOMAIN refunds' = DOMAIN refunds \cup {n}
      /\ n \notin DOMAIN refunds
      /\ \A i \in DOMAIN refunds : refunds'[i] = refunds[i]
      /\ refunds'[n] = New
  BY <1>1, AppendedOK, RowsOfRefunds DEF RefundsInv, RefundsTypeOK
<1> HIDE DEF n
<1>4. RefundsTypeOK'
  BY <1>1, <1>2, <1>3 DEF RefundsInv, RefundsTypeOK
<1>5. ASSUME ~muddled PROVE Clear'
  <2>1. Clear
    BY <1>5 DEF RefundsInv
  <2>2. Sole'
    BY <1>2, <2>1 DEF Clear, Sole
  <2>3. subject[a] = 0 /\ Free
    BY <1>1, <2>1 DEF Clear, AgentOK
  <2>4. ASSUME NEW b \in Agents PROVE AgentOK(b)'
    <3>1. CASE b = a
      BY <1>2, <3>1 DEF AgentOK
    <3>2. CASE b # a
      <4>1. agent[b] # "requesting"
        BY <1>1, <2>1, <2>3, <3>2 DEF Clear, Sole, AgentOK
      <4>2. AgentOK(b)
        BY <2>1 DEF Clear
      <4>3. QED
        BY <1>1, <1>2, <1>3, <3>2, <4>1, <4>2 DEF AgentOK
    <3>3. QED
      BY <3>1, <3>2
  <2>5. ASSUME NEW i \in DOMAIN refunds' PROVE RowOK(i, refunds[i])'
    BY <1>1, <1>3, <2>1 DEF Clear, RowOK, New
  <2>6. ASSUME NEW t \in DOMAIN moves PROVE MoveOK(t)'
    <3>1. MoveOK(t)
      BY <2>1 DEF Clear
    <3>2. moves'[t] \in DOMAIN refunds' /\ refunds'[moves'[t]] = refunds[moves[t]]
      BY <1>1, <1>3, <3>1 DEF MoveOK
    <3>3. CASE refunds[moves[t]].transfer = t
      BY <3>2, <3>3 DEF MoveOK
    <3>4. ASSUME NEW b \in Agents, agent[b] = "linking", subject[b] = moves[t],
                 seen[b].transfer = t
          PROVE  MoveOK(t)'
      <4>1. b # a
        BY <1>1, <3>4
      <4>2. QED
        BY <1>1, <1>2, <3>2, <3>4, <4>1 DEF MoveOK
    <3>5. QED
      BY <3>1, <3>3, <3>4 DEF MoveOK
  <2>7. OneStanding'
    BY <1>3, <2>3 DEF OneStanding, Free
  <2>8. QED
    BY <1>1, <2>2, <2>4, <2>5, <2>6, <2>7 DEF Clear
<1>6. QED
  BY <1>1, <1>4, <1>5 DEF RefundsInv

\* A request saves a row e over that of its refund, and is over.
LEMMA ReplaceInv ==
  ASSUME RefundsInv, NEW a \in Agents, NEW e \in Refund, Finish(a),
         agent[a] \notin {"idle", "requesting"},
         refunds' = [refunds EXCEPT ![subject[a]] = e],
         UNCHANGED <<tables, moves>>,
         muddled' \in BOOLEAN, muddled => muddled',
         ~muddled' =>
            /\ RowOK(subject[a], e)
            /\ Standing(e) => Standing(refunds[subject[a]])
            /\ refunds[subject[a]].transfer # 0 =>
                  e.transfer = refunds[subject[a]].transfer
            /\ agent[a] = "linking" => e.transfer = seen[a].transfer
  PROVE  RefundsInv'
<1> DEFINE i == subject[a]
<1>1. /\ agent' \in [Agents -> AgentSteps]
      /\ subject' \in [Agents -> Nat]
      /\ seen' \in [Agents -> Refund]
      /\ agent'[a] = "idle"
      /\ \A b \in Agents : b # a => /\ agent'[b] = agent[b]
                                    /\ subject'[b] = subject[b]
                                    /\ seen'[b] = seen[b]
  BY FinishOK DEF RefundsInv
<1>2. /\ refunds' \in Seq(Refund)
      /\ DOMAIN refunds' = DOMAIN refunds
      /\ \A j \in DOMAIN refunds : refunds'[j] = IF j = i THEN e ELSE refunds[j]
  <2>1. refunds \in Seq(Refund) /\ i \in Nat
    BY DEF RefundsInv, RefundsTypeOK
  <2>2. QED
    BY <2>1, ReplacedOK
<1>3. RefundsTypeOK'
  BY <1>1, <1>2 DEF RefundsInv, RefundsTypeOK
<1>4. ASSUME ~muddled' PROVE Clear'
  <2>1. Clear
    BY <1>4 DEF RefundsInv
  <2>2. i \in DOMAIN refunds
    BY <2>1 DEF Clear, AgentOK
  <2>3. Sole'
    BY <1>1, <2>1 DEF Clear, Sole
  <2>4. Free => Free'
    BY <1>2, <1>4 DEF Free
  <2>5. ASSUME NEW b \in Agents PROVE AgentOK(b)'
    <3>1. CASE b = a
      BY <1>1, <3>1 DEF AgentOK
    <3>2. CASE b # a /\ agent[b] \in {"idle", "requesting"}
      <4>1. AgentOK(b)
        BY <2>1 DEF Clear
      <4>2. QED
        BY <1>1, <2>4, <3>2, <4>1 DEF AgentOK
    <3>3. CASE b # a /\ agent[b] \notin {"idle", "requesting"}
      <4>1. AgentOK(b)
        BY <2>1 DEF Clear
      <4>2. subject[b] # i
        BY <2>1, <3>3 DEF Clear, Sole
      <4>3. /\ subject'[b] = subject[b] /\ subject[b] \in DOMAIN refunds'
            /\ refunds'[subject'[b]] = refunds[subject[b]]
        BY <1>1, <1>2, <3>3, <4>1, <4>2 DEF AgentOK
      <4>4. QED
        BY <1>1, <3>3, <4>1, <4>3 DEF AgentOK
    <3>4. QED
      BY <3>1, <3>2, <3>3
  <2>6. ASSUME NEW j \in DOMAIN refunds' PROVE RowOK(j, refunds[j])'
    BY <1>2, <1>4, <2>1 DEF Clear, RowOK
  <2>7. ASSUME NEW t \in DOMAIN moves PROVE MoveOK(t)'
    <3>1. MoveOK(t) /\ t # 0
      BY <2>1, RowsAre DEF Clear, RefundsInv, RefundsTypeOK
    <3>2. moves'[t] = moves[t] /\ moves[t] \in DOMAIN refunds'
      BY <1>2, <3>1 DEF MoveOK
    <3>3. CASE refunds[moves[t]].transfer = t
      <4>1. refunds'[moves[t]].transfer = t
        BY <1>2, <1>4, <3>1, <3>2, <3>3
      <4>2. QED
        BY <3>2, <4>1 DEF MoveOK
    <3>4. ASSUME NEW b \in Agents, agent[b] = "linking", subject[b] = moves[t],
                 seen[b].transfer = t
          PROVE  MoveOK(t)'
      <4>1. CASE b = a
        <5>1. refunds'[moves[t]].transfer = t
          BY <1>2, <1>4, <3>2, <3>4, <4>1
        <5>2. QED
          BY <3>2, <5>1 DEF MoveOK
      <4>2. CASE b # a
        BY <1>1, <3>2, <3>4, <4>2 DEF MoveOK
      <4>3. QED
        BY <4>1, <4>2
    <3>5. QED
      BY <3>1, <3>3, <3>4 DEF MoveOK
  <2>8. OneStanding'
    BY <1>2, <1>4, <2>1, <2>2 DEF Clear, OneStanding
  <2>9. QED
    BY <2>3, <2>5, <2>6, <2>7, <2>8 DEF Clear
<1>5. QED
  BY <1>3, <1>4 DEF RefundsInv

LEMMA SaveRefundInv ==
  ASSUME RefundsInv, NEW a \in Agents, SaveRefund(a)
  PROVE  RefundsInv'
<1>1. /\ agent[a] \in {"linking", "completing"} /\ Finish(a)
      /\ refunds' = [refunds EXCEPT ![subject[a]] = seen[a]]
      /\ UNCHANGED <<tables, moves, muddled>>
  BY DEF SaveRefund
<1>2. seen[a] \in Refund /\ muddled \in BOOLEAN
  BY DEF RefundsInv, RefundsTypeOK
<1>3. ASSUME ~muddled
      PROVE  /\ RowOK(subject[a], seen[a])
             /\ Standing(seen[a]) => Standing(refunds[subject[a]])
             /\ refunds[subject[a]].transfer # 0 =>
                   seen[a].transfer = refunds[subject[a]].transfer
  <2>1. /\ AgentOK(a) /\ subject[a] \in DOMAIN refunds
        /\ RowOK(subject[a], refunds[subject[a]])
    BY <1>1, <1>3 DEF RefundsInv, Clear, AgentOK
  <2>2. 0 \notin DOMAIN moves
    BY RowsAre DEF RefundsInv, RefundsTypeOK
  <2>3. QED
    BY <1>1, <2>1, <2>2 DEF AgentOK, RowOK, Standing
<1>4. QED
  BY <1>1, <1>2, <1>3, ReplaceInv

LEMMA SaveEditInv ==
  ASSUME RefundsInv, NEW a \in Agents, NEW s \in States, SaveEdit(a, s)
  PROVE  RefundsInv'
<1> DEFINE e == [seen[a] EXCEPT !.status = s]
<1>1. /\ agent[a] = "editing" /\ Finish(a)
      /\ refunds' = [refunds EXCEPT ![subject[a]] = e]
      /\ muddled' = (muddled \/ s \notin {"rejected", seen[a].status})
      /\ UNCHANGED <<tables, moves>>
  BY DEF SaveEdit
<1>2. e \in Refund /\ e.status = s /\ e.transfer = seen[a].transfer
  BY RowsOfRefunds DEF RefundsInv, RefundsTypeOK
<1> HIDE DEF e
<1>3. ASSUME ~muddled'
      PROVE  /\ RowOK(subject[a], e)
             /\ Standing(e) => Standing(refunds[subject[a]])
             /\ e.transfer = refunds[subject[a]].transfer
  <2>1. /\ seen[a] = refunds[subject[a]] /\ subject[a] \in DOMAIN refunds
        /\ RowOK(subject[a], refunds[subject[a]])
    BY <1>1, <1>3 DEF RefundsInv, Clear, AgentOK
  <2>2. s \in {"rejected", seen[a].status}
    BY <1>1, <1>3
  <2>3. QED
    BY <1>2, <2>1, <2>2 DEF RowOK, Standing
<1>4. muddled' \in BOOLEAN /\ (muddled => muddled')
  BY <1>1
<1>5. QED
  BY <1>1, <1>2, <1>3, <1>4, ReplaceInv

LEMMA RemoveRefundInv ==
  ASSUME RefundsInv, NEW a \in Agents, RemoveRefund(a)
  PROVE  RefundsInv'
<1>1. /\ agent[a] = "deleting" /\ Finish(a)
      /\ refunds' = [refunds EXCEPT ![subject[a]] = Gone]
      /\ muddled' = (muddled \/ seen[a].transfer # 0)
      /\ UNCHANGED <<tables, moves>>
  BY DEF RemoveRefund
<1>2. /\ Gone \in Refund /\ muddled' \in BOOLEAN /\ (muddled => muddled')
  BY <1>1, RowsOfRefunds
<1>3. ASSUME ~muddled'
      PROVE  /\ RowOK(subject[a], Gone) /\ ~Standing(Gone)
             /\ refunds[subject[a]].transfer = 0
  <2>1. seen[a] = refunds[subject[a]] /\ seen[a].transfer = 0
    BY <1>1, <1>3 DEF RefundsInv, Clear, AgentOK
  <2>2. QED
    BY <2>1 DEF RowOK, Standing, Gone
<1>4. QED
  BY <1>1, <1>2, <1>3, ReplaceInv

\* The admin site: all the rest is no longer promised.
LEMMA AddRefundInv ==
  ASSUME RefundsInv, NEW s \in States, AddRefund([status |-> s, transfer |-> 0])
  PROVE  RefundsInv'
<1> DEFINE e == [status |-> s, transfer |-> 0]
<1>1. /\ refunds' = Append(refunds, e) /\ muddled' = TRUE
      /\ UNCHANGED <<tables, moves, agent, subject, seen>>
  BY DEF AddRefund
<1>2. refunds' \in Seq(Refund)
  <2>1. e \in Refund /\ refunds \in Seq(Refund)
    BY DEF Refund, RefundsInv, RefundsTypeOK
  <2>2. QED
    BY <1>1, <2>1, AppendedOK
<1>3. QED
  BY <1>1, <1>2 DEF RefundsInv, RefundsTypeOK

LEMMA CompleteTransferInv ==
  ASSUME RefundsInv, NEW a \in Agents, CompleteTransfer(a)
  PROVE  RefundsInv'
<1>1. /\ agent[a] = "processing"
      /\ agent' \in [Agents -> AgentSteps]
      /\ \A b \in Agents : agent'[b] = IF b = a THEN "completing" ELSE agent[b]
      /\ UNCHANGED <<tables, refunds, moves, subject, seen, muddled>>
  BY DEF CompleteTransfer, RefundsInv, RefundsTypeOK, AgentSteps
<1>2. RefundsTypeOK'
  BY <1>1 DEF RefundsInv, RefundsTypeOK
<1>3. ASSUME ~muddled PROVE Clear'
  <2>1. Clear
    BY <1>3 DEF RefundsInv
  <2>2. Sole'
    BY <1>1, <2>1 DEF Clear, Sole
  <2>3. ASSUME NEW b \in Agents PROVE AgentOK(b)'
    BY <1>1, <2>1 DEF Clear, AgentOK, Free
  <2>4. ASSUME NEW t \in DOMAIN moves PROVE MoveOK(t)'
    BY <1>1, <2>1 DEF Clear, MoveOK
  <2>5. QED
    BY <1>1, <2>1, <2>2, <2>3, <2>4 DEF Clear, RowOK, OneStanding
<1>4. QED
  BY <1>1, <1>2, <1>3 DEF RefundsInv

\* The transfer of a refund is created: it is the only one for it, because the
\* refund has none so far and nobody else works on it.
LEMMA CreateRefundTransferInv ==
  ASSUME RefundsInv, NEW a \in Agents, CreateRefundTransfer(a)
  PROVE  RefundsInv'
<1> DEFINE n == Len(moves) + 1
<1>1. /\ agent[a] = "approving"
      /\ moves' = Append(moves, subject[a])
      /\ UNCHANGED <<tables, refunds, subject, muddled>>
  BY DEF CreateRefundTransfer
<1>2. /\ agent' \in [Agents -> AgentSteps]
      /\ \A b \in Agents : agent'[b] = IF b = a THEN "linking" ELSE agent[b]
  BY DEF CreateRefundTransfer, RefundsInv, RefundsTypeOK, AgentSteps
<1>3. /\ moves' \in Seq(Nat)
      /\ DOMAIN moves' = DOMAIN moves \cup {n}
      /\ n \notin DOMAIN moves /\ n \in Nat
      /\ \A t \in DOMAIN moves : moves'[t] = moves[t]
      /\ moves'[n] = subject[a]
  BY <1>1, AppendedOK, RowsAre DEF RefundsInv, RefundsTypeOK
<1>4. /\ seen' \in [Agents -> Refund]
      /\ seen'[a].status = "approved" /\ seen'[a].transfer = n
      /\ \A b \in Agents : b # a => seen'[b] = seen[b]
  <2>1. seen \in [Agents -> Refund] /\ "approved" \in States \cup {"deleted"}
    BY DEF RefundsInv, RefundsTypeOK, States
  <2>2. seen' = [seen EXCEPT ![a].status = "approved", ![a].transfer = n]
    BY DEF CreateRefundTransfer
  <2> DEFINE half == [seen EXCEPT ![a].status = "approved"]
  <2>3. /\ half \in [Agents -> Refund] /\ half[a].status = "approved"
        /\ \A b \in Agents : b # a => half[b] = seen[b]
    BY <2>1 DEF Refund
  <2>4. seen' = [half EXCEPT ![a].transfer = n]
    BY <2>2
  <2> HIDE DEF half
  <2>5. QED
    BY <1>3, <2>3, <2>4 DEF Refund
<1> HIDE DEF n
<1>5. RefundsTypeOK'
  BY <1>1, <1>2, <1>3, <1>4 DEF RefundsInv, RefundsTypeOK
<1>6. ASSUME ~muddled PROVE Clear'
  <2>1. Clear
    BY <1>6 DEF RefundsInv
  <2>2. Sole'
    BY <1>1, <1>2, <2>1 DEF Clear, Sole
  <2>3. ASSUME NEW b \in Agents PROVE AgentOK(b)'
    <3>1. AgentOK(b) /\ (Free => Free')
      BY <1>1, <2>1 DEF Clear, Free
    <3>2. CASE b = a
      BY <1>1, <1>2, <1>3, <1>4, <3>1, <3>2 DEF AgentOK
    <3>3. CASE b # a
      BY <1>1, <1>2, <1>3, <1>4, <3>1, <3>3 DEF AgentOK
    <3>4. QED
      BY <3>2, <3>3
  <2>4. ASSUME NEW i \in DOMAIN refunds PROVE RowOK(i, refunds[i])'
    BY <1>1, <1>3, <2>1 DEF Clear, RowOK
  <2>5. ASSUME NEW t \in DOMAIN moves' PROVE MoveOK(t)'
    <3>1. CASE t = n
      BY <1>1, <1>2, <1>3, <1>4, <2>1, <3>1 DEF Clear, AgentOK, MoveOK
    <3>2. CASE t \in DOMAIN moves
      <4>1. MoveOK(t) /\ moves'[t] = moves[t]
        BY <1>3, <2>1, <3>2 DEF Clear
      <4>2. CASE refunds[moves[t]].transfer = t
        BY <1>1, <4>1, <4>2 DEF MoveOK
      <4>3. ASSUME NEW b \in Agents, agent[b] = "linking", subject[b] = moves[t],
                   seen[b].transfer = t
            PROVE  MoveOK(t)'
        <5>1. b # a
          BY <1>1, <4>3
        <5>2. QED
          BY <1>1, <1>2, <1>4, <4>1, <4>3, <5>1 DEF MoveOK
      <4>4. QED
        BY <4>1, <4>2, <4>3 DEF MoveOK
    <3>3. QED
      BY <1>3, <3>1, <3>2
  <2>6. QED
    BY <1>1, <2>1, <2>2, <2>3, <2>4, <2>5 DEF Clear, OneStanding
<1>7. QED
  BY <1>1, <1>5, <1>6 DEF RefundsInv

\* The five kinds of requests begin as BeginInv asks.
LEMMA BeginsInv ==
  ASSUME RefundsInv, NEW a \in Agents,
         \/ RequestRefund(a)
         \/ \E i \in DOMAIN refunds :
               \/ ApproveRefund(a, i)
               \/ ProcessRefund(a, i)
               \/ EditRefund(a, i)
               \/ DeleteRefund(a, i)
  PROVE  RefundsInv'
<1>1. CASE RequestRefund(a)
  <2>1. New \in Refund /\ "requesting" \in AgentSteps
    BY RowsOfRefunds DEF AgentSteps
  <2>2. /\ Free /\ Begin(a, "requesting", 0, New)
        /\ UNCHANGED <<tables, refunds, moves>>
    BY <1>1 DEF RequestRefund
  <2>3. QED
    BY <2>1, <2>2, BeginInv
<1>2. ASSUME NEW i \in DOMAIN refunds,
             \/ ApproveRefund(a, i)
             \/ ProcessRefund(a, i)
             \/ EditRefund(a, i)
             \/ DeleteRefund(a, i)
      PROVE  RefundsInv'
  <2>1. refunds[i] \in Refund /\ i \in Nat
    BY RowsAre DEF RefundsInv, RefundsTypeOK
  <2>2. {"approving", "processing", "editing", "deleting"} \subseteq AgentSteps
    BY DEF AgentSteps
  <2>3. CASE ApproveRefund(a, i)
    <3>1. /\ refunds[i].status = "requested"
          /\ Begin(a, "approving", i, refunds[i])
          /\ UNCHANGED <<tables, refunds, moves>>
      BY <2>3 DEF ApproveRefund
    <3>2. QED
      BY <2>1, <2>2, <3>1, BeginInv
  <2>4. CASE ProcessRefund(a, i)
    <3> DEFINE copied == [refunds[i] EXCEPT !.status = "completed"]
    <3>1. /\ refunds[i].status = "approved" /\ Begin(a, "processing", i, copied)
          /\ UNCHANGED <<tables, refunds, moves>>
      BY <2>4 DEF ProcessRefund
    <3>2. /\ copied \in Refund /\ copied.status = "completed"
          /\ copied.transfer = refunds[i].transfer
      BY <2>1, RowsOfRefunds DEF States
    <3> HIDE DEF copied
    <3>3. QED
      BY <2>1, <2>2, <3>1, <3>2, BeginInv
  <2>5. CASE EditRefund(a, i)
    <3>1. Begin(a, "editing", i, refunds[i]) /\ UNCHANGED <<tables, refunds, moves>>
      BY <2>5 DEF EditRefund
    <3>2. QED
      BY <2>1, <2>2, <3>1, BeginInv
  <2>6. CASE DeleteRefund(a, i)
    <3>1. Begin(a, "deleting", i, refunds[i]) /\ UNCHANGED <<tables, refunds, moves>>
      BY <2>6 DEF DeleteRefund
    <3>2. QED
      BY <2>1, <2>2, <3>1, BeginInv
  <2>7. QED
    BY <1>2, <2>3, <2>4, <2>5, <2>6
<1>3. QED
  BY <1>1, <1>2

LEMMA RefundsNextInv == RefundsInv /\ [RefundsNext]_refundVars => RefundsInv'
<1> SUFFICES ASSUME RefundsInv, [RefundsNext]_refundVars PROVE RefundsInv'
  OBVIOUS
<1>1. ASSUME NEW a \in Agents,
             \/ RequestRefund(a)
             \/ \E i \in DOMAIN refunds :
                   \/ ApproveRefund(a, i)
                   \/ ProcessRefund(a, i)
                   \/ EditRefund(a, i)
                   \/ DeleteRefund(a, i)
      PROVE  RefundsInv'
  BY <1>1, BeginsInv
<1>2. ASSUME NEW a \in Agents, CreateRefund(a) PROVE RefundsInv'
  BY <1>2, CreateRefundInv
<1>3. ASSUME NEW a \in Agents, CreateRefundTransfer(a) PROVE RefundsInv'
  BY <1>3, CreateRefundTransferInv
<1>4. ASSUME NEW a \in Agents, SaveRefund(a) PROVE RefundsInv'
  BY <1>4, SaveRefundInv
<1>5. ASSUME NEW a \in Agents, CompleteTransfer(a) PROVE RefundsInv'
  BY <1>5, CompleteTransferInv
<1>6. ASSUME NEW a \in Agents, RemoveRefund(a) PROVE RefundsInv'
  BY <1>6, RemoveRefundInv
<1>7. ASSUME NEW a \in Agents, AgentFails(a) PROVE RefundsInv'
  BY <1>7, AgentFailsInv
<1>8. ASSUME NEW a \in Agents, NEW s \in States, SaveEdit(a, s) PROVE RefundsInv'
  BY <1>8, SaveEditInv
<1>9. ASSUME NEW s \in States, AddRefund([status |-> s, transfer |-> 0])
      PROVE  RefundsInv'
  BY <1>9, AddRefundInv
<1>10. CASE UNCHANGED refundVars
  BY <1>10 DEF refundVars, RefundsInv, RefundsTypeOK, Clear, Sole, AgentOK, RowOK,
               MoveOK, OneStanding, Free
<1>11. QED
  BY <1>1, <1>2, <1>3, <1>4, <1>5, <1>6, <1>7, <1>8, <1>9, <1>10 DEF RefundsNext

LEMMA RefundsInvariant == RefundsSpec => []RefundsInv
BY RefundsInitInv, RefundsNextInv, PTL DEF RefundsSpec

\* Type correctness of Refunds.
THEOREM RefundsTypeCorrect == RefundsSpec => []RefundsTypeOK
<1>1. RefundsInv => RefundsTypeOK
  BY DEF RefundsInv
<1>2. QED
  BY <1>1, RefundsInvariant, PTL

\* Unless requests meet on one row, an approval fails half-way or an admin sets
\* a status by hand, a transfer is refunded once (RefundedOnce).
THEOREM AllRefundedOnce == RefundsSpec => []RefundedOnce
<1>1. ASSUME RefundsInv PROVE RefundedOnce
  <2>1. SUFFICES ASSUME ~muddled
                 PROVE  /\ OneStanding
                        /\ \A t, u \in DOMAIN moves : moves[t] = moves[u] => t = u
                        /\ \A i \in DOMAIN refunds :
                              refunds[i].status = "completed" =>
                                  /\ refunds[i].transfer \in DOMAIN moves
                                  /\ moves[refunds[i].transfer] = i
    BY DEF RefundedOnce, OneStanding
  <2>2. Clear
    BY <1>1, <2>1 DEF RefundsInv
  <2>3. ASSUME NEW t \in DOMAIN moves, NEW u \in DOMAIN moves, moves[t] = moves[u]
        PROVE  t = u
    <3>1. /\ t # 0 /\ u # 0
          /\ MoveOK(t) /\ MoveOK(u) /\ moves[t] \in DOMAIN refunds
          /\ RowOK(moves[t], refunds[moves[t]])
      BY <1>1, <2>2, RowsAre DEF RefundsInv, RefundsTypeOK, Clear, MoveOK
    <3>2. ASSUME NEW a \in Agents, agent[a] = "linking", subject[a] = moves[t]
          PROVE  refunds[moves[t]].transfer = 0
      BY <2>2, <3>1, <3>2 DEF Clear, AgentOK, RowOK
    <3>3. CASE refunds[moves[t]].transfer \in {t, u}
      BY <2>3, <3>1, <3>2, <3>3 DEF MoveOK
    <3>4. CASE refunds[moves[t]].transfer \notin {t, u}
      <4>1. PICK a \in Agents : /\ agent[a] = "linking" /\ subject[a] = moves[t]
                                /\ seen[a].transfer = t
        BY <3>1, <3>4 DEF MoveOK
      <4>2. PICK b \in Agents : /\ agent[b] = "linking" /\ subject[b] = moves[t]
                                /\ seen[b].transfer = u
        BY <2>3, <3>1, <3>4 DEF MoveOK
      <4>3. a = b
        BY <2>2, <4>1, <4>2 DEF Clear, Sole
      <4>4. QED
        BY <4>1, <4>2, <4>3
    <3>5. QED
      BY <3>3, <3>4
  <2>4. QED
    BY <2>2, <2>3 DEF Clear, RowOK
<1>2. QED
  BY <1>1, RefundsInvariant, PTL

-----------------------------------------------------------------------------
(* Mails                                                                     *)

AtWork == Stages \ {"idle"}

\* The workers that stand before a stage, and how many they are.
Before(x) == {r \in Runners : run[r] = x}
Crowd     == [x \in AtWork |-> Cardinality(Before(x))]

\* What a task has done by a stage is counted before what it does next.
Counted ==
    /\ mailed["operator"] + Crowd["mail_operator"] <= recorded["receiver"]
    /\ recorded["receiver"] + Crowd["record_receiver"] <= mailed["receiver"]
    /\ mailed["receiver"] + Crowd["mail_receiver"] <= recorded["sender"]
    /\ recorded["sender"] + Crowd["record_sender"] <= mailed["sender"]
    /\ mailed["sender"] + Crowd["mail_sender"] <= begun

MailsInv ==
    /\ MailsTypeOK
    /\ \A x \in AtWork : IsFiniteSet(Before(x))
    /\ Counted

LEMMA StagesAre ==
  /\ "mail_sender" \in AtWork /\ "record_sender" \in AtWork
  /\ "mail_receiver" \in AtWork /\ "record_receiver" \in AtWork
  /\ "mail_operator" \in AtWork
  /\ AtWork \subseteq Stages /\ "idle" \in Stages /\ "idle" \notin AtWork
  /\ \A x \in Stages : x \in AtWork \/ x = "idle"
BY DEF AtWork, Stages

LEMMA CrowdOK ==
  ASSUME \A x \in AtWork : IsFiniteSet(Before(x))
  PROVE  \A x \in AtWork : Crowd[x] \in Nat
BY FS_CardinalityType DEF Crowd

LEMMA CountsOK ==
  ASSUME MailsTypeOK
  PROVE  /\ mailed["sender"] \in Nat /\ mailed["receiver"] \in Nat
         /\ mailed["operator"] \in Nat
         /\ recorded["sender"] \in Nat /\ recorded["receiver"] \in Nat
         /\ begun \in Nat
BY DEF MailsTypeOK, Parties

\* How the crowds change when a worker goes from one stage to another one.
Shifts(from, to) ==
    \A x \in AtWork : Crowd'[x] = IF x = from THEN Crowd[x] - 1
                                  ELSE IF x = to THEN Crowd[x] + 1 ELSE Crowd[x]

LEMMA TurnsOK ==
  ASSUME MailsInv, NEW r \in Runners, NEW from \in Stages, NEW to \in Stages,
         from # to, run[r] = from, run' = [run EXCEPT ![r] = to]
  PROVE  /\ run' \in [Runners -> Stages]
         /\ \A x \in AtWork : IsFiniteSet(Before(x)')
         /\ Shifts(from, to)
<1>1. /\ run' \in [Runners -> Stages]
      /\ \A q \in Runners : run'[q] = IF q = r THEN to ELSE run[q]
  BY DEF MailsInv, MailsTypeOK
<1>2. ASSUME NEW x \in AtWork
      PROVE  /\ IsFiniteSet(Before(x)')
             /\ Cardinality(Before(x)') =
                   IF x = from THEN Cardinality(Before(x)) - 1
                   ELSE IF x = to THEN Cardinality(Before(x)) + 1
                   ELSE Cardinality(Before(x))
  <2>1. IsFiniteSet(Before(x))
    BY DEF MailsInv
  <2>2. CASE x = from
    <3>1. Before(x)' = Before(x) \ {r} /\ r \in Before(x)
      BY <1>1, <2>2 DEF Before
    <3>2. QED
      BY <2>1, <2>2, <3>1, FS_RemoveElement
  <2>3. CASE x = to
    <3>1. Before(x)' = Before(x) \cup {r} /\ r \notin Before(x)
      BY <1>1, <2>3 DEF Before
    <3>2. QED
      BY <2>1, <2>3, <3>1, FS_AddElement
  <2>4. CASE x # from /\ x # to
    <3>1. Before(x)' = Before(x)
      BY <1>1, <2>4 DEF Before
    <3>2. QED
      BY <2>1, <2>4, <3>1
  <2>5. QED
    BY <2>2, <2>3, <2>4
<1>3. QED
  BY <1>1, <1>2 DEF Shifts, Crowd

LEMMA MailsInitInv == MailsInit => MailsInv
<1> SUFFICES ASSUME MailsInit PROVE MailsInv
  OBVIOUS
<1>1. MailsTypeOK
  BY DEF MailsInit, MailsTypeOK, Parties, Stages
<1>2. \A x \in AtWork : Before(x) = {}
  BY DEF MailsInit, AtWork, Before
<1>3. \A x \in AtWork : IsFiniteSet(Before(x)) /\ Crowd[x] = 0
  BY <1>2, FS_EmptySet DEF Crowd
<1>4. /\ mailed["sender"] = 0 /\ mailed["receiver"] = 0 /\ mailed["operator"] = 0
      /\ recorded["sender"] = 0 /\ recorded["receiver"] = 0 /\ begun = 0
  BY DEF MailsInit, Parties
<1>5. Counted
  BY <1>3, <1>4, StagesAre DEF Counted
<1>6. QED
  BY <1>1, <1>3, <1>5 DEF MailsInv

\* Steps that no worker takes.
LEMMA OutsideInv ==
  ASSUME MailsInv, queued' \in Nat, template' \in BOOLEAN,
         UNCHANGED <<begun, run, mailed, recorded>>
  PROVE  MailsInv'
BY DEF MailsInv, MailsTypeOK, Counted, Crowd, Before

LEMMA TakeMailsInv ==
  ASSUME MailsInv, NEW r \in Runners, TakeMails(r)
  PROVE  MailsInv'
<1>1. /\ run[r] = "idle" /\ run' = [run EXCEPT ![r] = "mail_sender"]
      /\ queued' = queued - 1 /\ queued > 0 /\ begun' = begun + 1
      /\ UNCHANGED <<template, mailed, recorded>>
  BY DEF TakeMails, Turns
<1>2. "idle" \in Stages /\ "mail_sender" \in Stages
  BY DEF Stages
<1>3. /\ run' \in [Runners -> Stages]
      /\ \A x \in AtWork : IsFiniteSet(Before(x)')
      /\ Shifts("idle", "mail_sender")
  BY <1>1, <1>2, TurnsOK
<1>4. MailsTypeOK'
  <2>1. queued' \in Nat /\ begun' \in Nat
    BY <1>1 DEF MailsInv, MailsTypeOK
  <2>2. QED
    BY <1>1, <1>3, <2>1 DEF MailsInv, MailsTypeOK
<1>5. Counted'
  BY <1>1, <1>3, CountsOK, CrowdOK, StagesAre DEF MailsInv, Counted, Shifts
<1>6. QED
  BY <1>3, <1>4, <1>5 DEF MailsInv

\* A mail is accepted, and the worker goes on or ends.
LEMMA MailedInv ==
  ASSUME MailsInv, NEW r \in Runners, NEW who \in {"sender", "receiver", "operator"},
         NEW from, NEW to \in Stages,
         \/ who = "sender" /\ from = "mail_sender" /\ to \in {"record_sender", "idle"}
         \/ who = "receiver" /\ from = "mail_receiver"
               /\ to \in {"record_receiver", "idle"}
         \/ who = "operator" /\ from = "mail_operator" /\ to = "idle",
         run[r] = from, run' = [run EXCEPT ![r] = to],
         mailed' = [mailed EXCEPT ![who] = @ + 1],
         UNCHANGED <<queued, begun, template, recorded>>
  PROVE  MailsInv'
<1>1. from \in Stages /\ from # to
  BY DEF Stages
<1>2. /\ run' \in [Runners -> Stages]
      /\ \A x \in AtWork : IsFiniteSet(Before(x)')
      /\ Shifts(from, to)
  BY <1>1, TurnsOK
<1>3. /\ mailed' \in [Parties \cup {"operator"} -> Nat]
      /\ mailed'[who] = mailed[who] + 1
      /\ \A w \in {"sender", "receiver", "operator"} :
            w # who => mailed'[w] = mailed[w]
  <2>1. mailed \in [Parties \cup {"operator"} -> Nat]
        /\ {"sender", "receiver", "operator"} = Parties \cup {"operator"}
    BY DEF MailsInv, MailsTypeOK, Parties
  <2>2. QED
    BY <2>1
<1>4. MailsTypeOK'
  BY <1>2, <1>3 DEF MailsInv, MailsTypeOK
<1>5. Counted'
  <2>1. CASE who = "sender"
    BY <1>3, <1>2, <2>1, CountsOK, CrowdOK, StagesAre DEF MailsInv, Counted, Shifts
  <2>2. CASE who = "receiver"
    BY <1>3, <1>2, <2>2, CountsOK, CrowdOK, StagesAre DEF MailsInv, Counted, Shifts
  <2>3. CASE who = "operator"
    BY <1>3, <1>2, <2>3, CountsOK, CrowdOK, StagesAre DEF MailsInv, Counted, Shifts
  <2>4. QED
    BY <2>1, <2>2, <2>3
<1>6. QED
  BY <1>2, <1>4, <1>5 DEF MailsInv

\* A record is stored of the mail before it.
LEMMA RecordedInv ==
  ASSUME MailsInv, NEW r \in Runners, NEW who \in {"sender", "receiver"},
         NEW from, NEW to,
         \/ who = "sender" /\ from = "record_sender" /\ to = "mail_receiver"
         \/ who = "receiver" /\ from = "record_receiver" /\ to = "mail_operator",
         run[r] = from, run' = [run EXCEPT ![r] = to],
         recorded' = [recorded EXCEPT ![who] = @ + 1],
         UNCHANGED <<queued, begun, template, mailed>>
  PROVE  MailsInv'
<1>1. from \in Stages /\ to \in Stages /\ from # to
  BY DEF Stages
<1>2. /\ run' \in [Runners -> Stages]
      /\ \A x \in AtWork : IsFiniteSet(Before(x)')
      /\ Shifts(from, to)
  BY <1>1, TurnsOK
<1>3. /\ recorded' \in [Parties -> Nat]
      /\ recorded'[who] = recorded[who] + 1
      /\ \A w \in {"sender", "receiver"} : w # who => recorded'[w] = recorded[w]
  <2>1. recorded \in [Parties -> Nat] /\ {"sender", "receiver"} = Parties
    BY DEF MailsInv, MailsTypeOK, Parties
  <2>2. QED
    BY <2>1
<1>4. MailsTypeOK'
  BY <1>2, <1>3 DEF MailsInv, MailsTypeOK
<1>5. Counted'
  <2>1. CASE who = "sender"
    BY <1>3, <1>2, <2>1, CountsOK, CrowdOK, StagesAre DEF MailsInv, Counted, Shifts
  <2>2. CASE who = "receiver"
    BY <1>3, <1>2, <2>2, CountsOK, CrowdOK, StagesAre DEF MailsInv, Counted, Shifts
  <2>3. QED
    BY <2>1, <2>2
<1>6. QED
  BY <1>2, <1>4, <1>5 DEF MailsInv

LEMMA RunFailsInv ==
  ASSUME MailsInv, NEW r \in Runners, RunFails(r)
  PROVE  MailsInv'
<1> DEFINE from == run[r]
<1>1. /\ from # "idle" /\ run' = [run EXCEPT ![r] = "idle"]
      /\ UNCHANGED <<queued, begun, template, mailed, recorded>>
  BY DEF RunFails
<1>2. from \in Stages /\ "idle" \in Stages
  BY DEF MailsInv, MailsTypeOK, Stages
<1>3. /\ run' \in [Runners -> Stages]
      /\ \A x \in AtWork : IsFiniteSet(Before(x)')
      /\ Shifts(from, "idle")
  BY <1>1, <1>2, TurnsOK
<1>4. MailsTypeOK'
  BY <1>1, <1>3 DEF MailsInv, MailsTypeOK
<1>5. Counted'
  <2> HIDE DEF from
  <2>1. QED
    BY <1>1, <1>3, CountsOK, CrowdOK, StagesAre DEF MailsInv, Counted, Shifts
<1>6. QED
  BY <1>3, <1>4, <1>5 DEF MailsInv

LEMMA MailsNextInv == MailsInv /\ [MailsNext]_mailVars => MailsInv'
<1> SUFFICES ASSUME MailsInv, [MailsNext]_mailVars PROVE MailsInv'
  OBVIOUS
<1> USE DEF Turns
<1>1. CASE QueueMails \/ LoseMails \/ EditTemplate
  <2>1. queued' \in Nat
    BY <1>1 DEF QueueMails, LoseMails, EditTemplate, MailsInv, MailsTypeOK
  <2>2. template' \in BOOLEAN
    BY <1>1 DEF QueueMails, LoseMails, EditTemplate, MailsInv, MailsTypeOK
  <2>3. QED
    BY <1>1, <2>1, <2>2, OutsideInv DEF QueueMails, LoseMails, EditTemplate
<1>2. ASSUME NEW r \in Runners, TakeMails(r) PROVE MailsInv'
  BY <1>2, TakeMailsInv
<1>3. ASSUME NEW r \in Runners, SendToSender(r) PROVE MailsInv'
  <2>1. "record_sender" \in Stages
    BY DEF Stages
  <2>2. QED
    BY <1>3, <2>1, MailedInv DEF SendToSender, Accepted
<1>4. ASSUME NEW r \in Runners, SendToReceiver(r) PROVE MailsInv'
  <2>1. "record_receiver" \in Stages
    BY DEF Stages
  <2>2. QED
    BY <1>4, <2>1, MailedInv DEF SendToReceiver, Accepted
<1>5. ASSUME NEW r \in Runners, SendToOperator(r) PROVE MailsInv'
  <2>1. "idle" \in Stages
    BY DEF Stages
  <2>2. QED
    BY <1>5, <2>1, MailedInv DEF SendToOperator, Accepted
<1>6. ASSUME NEW r \in Runners, RecordSender(r) \/ RecordReceiver(r) PROVE MailsInv'
  BY <1>6, RecordedInv DEF RecordSender, RecordReceiver
<1>7. ASSUME NEW r \in Runners, RunFails(r) PROVE MailsInv'
  BY <1>7, RunFailsInv
<1>8. ASSUME NEW r \in Runners, NEW who \in DOMAIN mailed, Unheard(r, who)
      PROVE  MailsInv'
  <2>1. who \in {"sender", "receiver", "operator"} /\ "idle" \in Stages
    BY DEF MailsInv, MailsTypeOK, Parties, Stages
  <2>2. \/ who = "sender" /\ StageOf[who] = "mail_sender"
        \/ who = "receiver" /\ StageOf[who] = "mail_receiver"
        \/ who = "operator" /\ StageOf[who] = "mail_operator"
    BY <2>1 DEF StageOf
  <2>3. QED
    BY <1>8, <2>1, <2>2, MailedInv DEF Unheard
<1>9. CASE UNCHANGED mailVars
  BY <1>9 DEF mailVars, MailsInv, MailsTypeOK, Counted, Crowd, Before
<1>10. QED
  BY <1>1, <1>2, <1>3, <1>4, <1>5, <1>6, <1>7, <1>8, <1>9 DEF MailsNext

LEMMA MailsInvariant == MailsSpec => []MailsInv
BY MailsInitInv, MailsNextInv, PTL DEF MailsSpec

\* Type correctness of Mails.
THEOREM MailsTypeCorrect == MailsSpec => []MailsTypeOK
<1>1. MailsInv => MailsTypeOK
  BY DEF MailsInv
<1>2. QED
  BY <1>1, MailsInvariant, PTL

\* Over all the runs for a transfer, no record tells of a mail that was not
\* accepted, and nobody is told before those who come first (RecordsAreTrue).
THEOREM RecordsTrue == MailsSpec => []RecordsAreTrue
<1>1. ASSUME MailsInv PROVE RecordsAreTrue
  BY <1>1, CountsOK, CrowdOK, StagesAre DEF MailsInv, Counted, RecordsAreTrue
<1>2. QED
  BY <1>1, MailsInvariant, PTL
-----------------------------------------------------------------------------
(* All ten parts                                                             *)

\* The part that is at work takes a step of its own specification, and no other
\* part takes any.
LEMMA OnePartSteps ==
  ASSUME [ServicesNext]_services
  PROVE  /\ [AccountsNext]_accountsVars
         /\ [KycNext]_kycVars
         /\ [RateCacheNext]_rateVars
         /\ [NotificationsNext]_hookVars
         /\ [MailsNext]_mailVars
         /\ [RequestsNext]_requestVars
         /\ [RefundsNext]_refundVars
         /\ [CustodyNext]_custodyVars
         /\ [PlacementNext]_placementVars
         /\ [AccessNext]_accessVars
<1>1. CASE UNCHANGED services
  BY <1>1 DEF services
<1>2. CASE ServicesNext
  BY <1>2 DEF ServicesNext
<1>3. QED
  BY <1>1, <1>2

\* What the ten parts do together is, for each of them, a behaviour of its
\* specification: every theorem about a part holds of the whole.
LEMMA EachPartIsItself ==
  ServicesSpec => /\ AccountsSpec
                  /\ KycSpec
                  /\ RateCacheSpec
                  /\ NotificationsSpec
                  /\ MailsSpec
                  /\ RequestsSpec
                  /\ RefundsSpec
                  /\ CustodySpec
                  /\ PlacementSpec
                  /\ AccessSpec
<1>1. ServicesInit => /\ AccountsInit
                      /\ KycInit
                      /\ RateCacheInit
                      /\ NotificationsInit
                      /\ MailsInit
                      /\ RequestsInit
                      /\ RefundsInit
                      /\ CustodyInit
                      /\ PlacementInit
                      /\ AccessInit
  BY DEF ServicesInit
<1>2. QED
  BY <1>1, OnePartSteps, PTL
  DEF ServicesSpec, AccountsSpec, KycSpec, RateCacheSpec, NotificationsSpec,
      MailsSpec, RequestsSpec, RefundsSpec, CustodySpec, PlacementSpec,
      AccessSpec

\* Every variable of the ten parts keeps its type, whichever of them is at work
\* (ServicesTypeOK).
THEOREM ServicesTypeCorrect == ServicesSpec => []ServicesTypeOK
<1>1. /\ AccountsTypeOK /\ KycTypeOK /\ RateCacheTypeOK /\ NotificationsTypeOK
      /\ MailsTypeOK /\ RequestsTypeOK /\ RefundsTypeOK /\ CustodyTypeOK
      /\ PlacementTypeOK /\ AccessTypeOK
      => ServicesTypeOK
  BY DEF ServicesTypeOK
<1>2. QED
  BY <1>1, EachPartIsItself, AccountsTypeCorrect, KycTypeCorrect,
     RateCacheTypeCorrect, HookTypeCorrect, MailsTypeCorrect,
     RequestsTypeCorrect, RefundsTypeCorrect, CustodyTypeCorrect,
     PlacementTypeCorrect, AccessTypeCorrect, PTL

=============================================================================
