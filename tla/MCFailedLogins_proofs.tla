------------------------- MODULE MCFailedLogins_proofs -------------------------
(* The module auth for any number of logins, rows, signups and emails: a block    *)
(* has as many wrong passwords behind it as the limit asks for, logins one by one  *)
(* keep to the limit, and an email has one account.                                *)
EXTENDS MCFailedLogins, FiniteSetTheorems, TLAPS

-------------------------------------------------------------------------------
(* Logins, however they overlap. *)

Finders == {l \in Logins : Waiting(l, "find")}

\* n wrong passwords that are not yet counted in a row, of g that were given,
\* leave enough of them for what the row says.
Caused(row, n, g) ==
    /\ row.failedAttempts <= MaxAttempts
    /\ row.failedAttempts + n <= g
    /\ row.blockedUntil # None => g >= MaxFailures

Saving(login) == login # None /\ login.at \in Saves

\* Every row of the table, and every entity on its way there, has its cause.
Counted ==
    /\ Cardinality(Finders) <= given
    /\ \A id \in RowIds : rows[id] # None => Caused(rows[id], Cardinality(Finders), given)
    /\ \A l \in Logins : Saving(logins[l]) =>
          /\ logins[l].id \in RowIds /\ logins[l].row \in FailedLogin
          /\ Caused(logins[l].row, Cardinality(Finders), given)

Inv == TypeOK /\ Counted

LEMMA FiniteFinders ==
    /\ IsFiniteSet(Finders) /\ Cardinality(Finders) \in Nat
    /\ Cardinality(Finders) <= Cardinality(Logins) /\ Cardinality(Logins) \in Nat
    /\ MaxGiven \in Nat
<1>1. IsFiniteSet(Logins) /\ Finders \in SUBSET Logins
  BY FailedLoginsAssumption DEF Finders
<1>2. IsFiniteSet(Finders) /\ Cardinality(Finders) <= Cardinality(Logins)
  BY <1>1, FS_Subset
<1>3. Cardinality(Logins) \in Nat /\ Cardinality(Finders) \in Nat
  BY <1>1, <1>2, FS_CardinalityType
<1>4. QED BY <1>2, <1>3, FailedLoginsAssumption DEF MaxGiven

\* How the number of the logins at their query changes with one login's step.
LEMMA FindersStep ==
    ASSUME NEW l \in Logins, NEW new, TypeOK, logins' = [logins EXCEPT ![l] = new]
    PROVE  /\ new = None \/ new.at # "find" =>
                 Cardinality(Finders') =
                     IF l \in Finders THEN Cardinality(Finders) - 1 ELSE Cardinality(Finders)
           /\ new # None /\ new.at = "find" =>
                 Cardinality(Finders') =
                     IF l \in Finders THEN Cardinality(Finders) ELSE Cardinality(Finders) + 1
<1>1. logins'[l] = new /\ \A k \in Logins \ {l} : logins'[k] = logins[k]
  BY DEF TypeOK
<1>2. CASE new = None \/ new.at # "find"
  <2>1. Finders' = Finders \ {l}
    BY <1>1, <1>2 DEF Finders, Waiting
  <2>2. QED BY <1>2, <2>1, FiniteFinders, FS_RemoveElement
<1>3. CASE new # None /\ new.at = "find"
  <2>1. Finders' = Finders \cup {l}
    BY <1>1, <1>3 DEF Finders, Waiting
  <2>2. QED BY <1>3, <2>1, FiniteFinders, FS_AddElement
<1>4. QED BY <1>2, <1>3

LEMMA NoMoreFinders ==
    ASSUME NEW l \in Logins, NEW new, TypeOK, logins' = [logins EXCEPT ![l] = new],
           new = None \/ new.at # "find"
    PROVE  /\ Cardinality(Finders) \in Nat /\ Cardinality(Finders') \in Nat
           /\ Cardinality(Finders') <= Cardinality(Finders)
<1>1. (Cardinality(Finders) \in Nat)'
  BY FiniteFinders, PTL
<1>2. Cardinality(Finders') =
          IF l \in Finders THEN Cardinality(Finders) - 1 ELSE Cardinality(Finders)
  BY FindersStep
<1>3. Cardinality(Finders) \in Nat
  BY FiniteFinders
<1> DEFINE c == Cardinality(Finders)
<1> HIDE DEF c
<1>4. QED BY <1>1, <1>2, <1>3 DEF c

LEMMA InitInv == Init => Inv
<1> SUFFICES ASSUME Init PROVE Inv
  OBVIOUS
<1>1. TypeOK
  BY FailedLoginsAssumption, FiniteFinders DEF Init, TypeOK
<1>2. Finders = {}
  BY DEF Init, Finders, Waiting
<1>3. Cardinality(Finders) = 0
  BY <1>2, FS_EmptySet
<1>4. Counted
  BY <1>3 DEF Init, Counted, Saving
<1>5. QED BY <1>1, <1>4 DEF Inv

\* Fewer passwords to count, or a table that knows of none, keep every cause.
LEMMA CausesKept ==
    ASSUME Inv, NEW l \in Logins, NEW new \in Login \cup {None},
           logins' = [logins EXCEPT ![l] = new],
           new = None \/ new.at # "find",
           rows' \in [RowIds -> FailedLogin \cup {None}],
           \A id \in RowIds : rows'[id] # None =>
               Caused(rows'[id], Cardinality(Finders'), given),
           Saving(new) =>
               /\ new.id \in RowIds /\ new.row \in FailedLogin
               /\ Caused(new.row, Cardinality(Finders'), given),
           Remember \/ given' = given,
           streak' \in 0 .. MaxFailures + 1,
           sinceWrong' \in 0 .. Block
    PROVE  Inv'
<1>1. /\ logins \in [Logins -> Login \cup {None}] /\ given \in 0 .. MaxGiven
      /\ Cardinality(Finders) <= given
      /\ Cardinality(Finders) \in Nat /\ Cardinality(Finders') \in Nat /\ MaxGiven \in Nat
  BY FiniteFinders, NoMoreFinders DEF Inv, TypeOK, Counted
<1>2. logins'[l] = new /\ \A k \in Logins \ {l} : logins'[k] = logins[k]
  BY <1>1
<1>3. given' \in 0 .. MaxGiven
  BY <1>1 DEF Remember
<1>4. MaxGiven' = MaxGiven
  BY DEF MaxGiven
<1>5. TypeOK'
  BY <1>1, <1>3, <1>4 DEF Inv, TypeOK
<1>6. Cardinality(Finders') <= Cardinality(Finders)
  BY NoMoreFinders DEF Inv
<1>7. ASSUME NEW k \in Logins, Saving(logins'[k])
      PROVE  /\ logins'[k].id \in RowIds /\ logins'[k].row \in FailedLogin
             /\ Caused(logins'[k].row, Cardinality(Finders'), given)
  <2>1. CASE k = l
    BY <1>2, <1>7, <2>1
  <2>2. CASE k # l
    <3>1. /\ logins'[k].id \in RowIds /\ logins'[k].row \in FailedLogin
          /\ Caused(logins'[k].row, Cardinality(Finders), given)
      BY <1>2, <1>7, <2>2 DEF Inv, Counted
    <3>2. logins'[k].row.failedAttempts \in Nat
      BY <3>1 DEF FailedLogin
    <3>3. QED BY <1>1, <1>6, <3>1, <3>2 DEF Caused
  <2>3. QED BY <2>1, <2>2
<1>8. CASE given' = 0 /\ Clean'
  <2>1. /\ \A id \in RowIds : rows'[id] = None
        /\ \A k \in Logins : logins'[k] # None => logins'[k].at \notin {"find"} \cup Saves
    BY <1>8 DEF Clean, Rows
  <2>2. Finders' = {}
    BY <2>1 DEF Finders, Waiting
  <2>3. Cardinality(Finders') = 0
    BY <2>2, FS_EmptySet
  <2>4. Counted'
    BY <1>8, <2>1, <2>3 DEF Counted, Saving
  <2>5. QED BY <1>5, <2>4 DEF Inv
<1>9. CASE given' = given
  <2>1. Counted'
    BY <1>1, <1>6, <1>7, <1>9 DEF Counted, Saving
  <2>2. QED BY <1>5, <2>1 DEF Inv
<1>10. QED BY <1>8, <1>9 DEF Remember

\* A login that goes on without a new entity, while the rows are kept or deleted.
LEMMA MoveStep ==
    ASSUME Inv, NEW l \in Logins, NEW new \in Login \cup {None},
           logins' = [logins EXCEPT ![l] = new],
           new = None \/ new.at # "find",
           Saving(new) => Saving(logins[l]) /\ new.id = logins[l].id /\ new.row = logins[l].row,
           rows' = rows \/ rows' = NoRows,
           Remember \/ given' = given,
           streak' \in 0 .. MaxFailures + 1,
           sinceWrong' \in 0 .. Block
    PROVE  Inv'
<1>1. /\ rows \in [RowIds -> FailedLogin \cup {None}] /\ given \in 0 .. MaxGiven
      /\ Cardinality(Finders) \in Nat /\ Cardinality(Finders') \in Nat /\ MaxGiven \in Nat
  BY FiniteFinders, NoMoreFinders DEF Inv, TypeOK
<1>2. Cardinality(Finders') <= Cardinality(Finders)
  BY NoMoreFinders DEF Inv
<1>3. ASSUME NEW row \in FailedLogin, Caused(row, Cardinality(Finders), given)
      PROVE  Caused(row, Cardinality(Finders'), given)
  BY <1>1, <1>2, <1>3 DEF Caused, FailedLogin
<1>4. /\ rows' \in [RowIds -> FailedLogin \cup {None}]
      /\ \A id \in RowIds : rows'[id] # None => rows[id] # None /\ rows'[id] = rows[id]
  BY <1>1 DEF NoRows
<1>5. \A id \in RowIds : rows'[id] # None =>
          Caused(rows'[id], Cardinality(Finders'), given)
  BY <1>1, <1>3, <1>4 DEF Inv, Counted
<1>6. Saving(new) =>
          /\ new.id \in RowIds /\ new.row \in FailedLogin
          /\ Caused(new.row, Cardinality(Finders'), given)
  BY <1>3 DEF Inv, Counted
<1>7. QED BY <1>4, <1>5, <1>6, CausesKept

\* Where Goto takes a login.
LEMMA GotoStep ==
    ASSUME TypeOK, NEW l \in Logins, NEW at \in Waits, logins[l] # None, Goto(l, at)
    PROVE  \E new \in Login :
               /\ logins' = [logins EXCEPT ![l] = new]
               /\ new.at = at /\ new.id = logins[l].id /\ new.row = logins[l].row
               /\ new # None
<1>1. logins[l] \in Login
  BY DEF TypeOK
<1> DEFINE new == [logins[l] EXCEPT !.at = at]
<1>2. new \in Login /\ new.at = at /\ new.id = logins[l].id /\ new.row = logins[l].row
  BY <1>1 DEF Login
<1>3. logins' = [logins EXCEPT ![l] = new]
  BY DEF Goto
<1>4. QED BY <1>2, <1>3, NoneAssumption

\* The entity after one more attempt takes the place of one password to count.
LEMMA FailedCaused ==
    ASSUME NEW n \in Nat, NEW until \in 0 .. Block \cup {None}, NEW k \in Nat, NEW g \in Nat,
           n <= MaxAttempts, n + k <= g, until # None => g >= MaxFailures
    PROVE  Failed(n, until) \in FailedLogin /\ Caused(Failed(n, until), k, g)
<1>1. Failed(n, until) \in FailedLogin
  BY FailedLoginsAssumption DEF Failed, FailedLogin
<1>2. /\ Failed(n, until).failedAttempts = n
      /\ Failed(n, until).blockedUntil = IF n >= MaxFailures THEN Block ELSE until
  BY DEF Failed
<1>3. Failed(n, until).blockedUntil # None => g >= MaxFailures
  BY <1>2, FailedLoginsAssumption
<1>4. QED BY <1>1, <1>2, <1>3 DEF Caused

LEMMA FindStep ==
    ASSUME Inv, NEW l \in Logins, FindFailedLogin(l)
    PROVE  Inv'
<1>1. /\ rows \in [RowIds -> FailedLogin \cup {None}]
      /\ logins \in [Logins -> Login \cup {None}] /\ logins[l] \in Login
      /\ given \in Nat /\ streak \in 0 .. MaxFailures + 1 /\ sinceWrong \in 0 .. Block
      /\ Cardinality(Finders) \in Nat /\ Cardinality(Finders) <= given /\ l \in Finders
      /\ UNCHANGED <<rows, history>>
  <2>1. logins[l] # None /\ l \in Finders /\ UNCHANGED <<rows, history>>
    BY DEF FindFailedLogin, Waiting, Finders
  <2>2. given \in Nat
    BY FiniteFinders DEF Inv, TypeOK
  <2>3. QED BY <2>1, <2>2, FiniteFinders DEF Inv, TypeOK, Counted
<1> DEFINE k == Cardinality(Finders) - 1
<1>2. k \in Nat
  <2>1. Finders # {}
    BY <1>1
  <2>2. Cardinality(Finders) # 0
    BY <2>1, FiniteFinders, FS_EmptySet
  <2>3. QED BY <1>1, <2>2
<1>3. PICK id \in RowIds, row \in FailedLogin, at \in {"insert", "load"} :
          /\ Caused(row, k, given)
          /\ logins' = [logins EXCEPT ![l].at = at, ![l].id = id, ![l].row = row]
  <2>1. CASE Rows = {}
    <3>1. PICK id \in FreshIds :
              logins' = [logins EXCEPT ![l].at = "insert", ![l].id = id,
                                       ![l].row = Failed(1, None)]
      BY <2>1 DEF FindFailedLogin
    <3>2. 1 <= MaxAttempts /\ 1 + k <= given
      BY <1>1, FailedLoginsAssumption
    <3>3. Failed(1, None) \in FailedLogin /\ Caused(Failed(1, None), k, given)
      BY <1>1, <1>2, <3>2, FailedCaused
    <3>4. id \in RowIds
      BY DEF FreshIds
    <3>5. QED BY <3>1, <3>3, <3>4
  <2>2. CASE Rows # {}
    <3>1. PICK id \in Rows :
              /\ rows[id].failedAttempts < MaxAttempts
              /\ logins' = [logins EXCEPT ![l].at = "load", ![l].id = id,
                     ![l].row = Failed(rows[id].failedAttempts + 1, rows[id].blockedUntil)]
      BY <2>2 DEF FindFailedLogin
    <3> DEFINE n == rows[id].failedAttempts + 1
               until == rows[id].blockedUntil
    <3>2. /\ id \in RowIds /\ rows[id] \in FailedLogin
          /\ Caused(rows[id], Cardinality(Finders), given)
      BY <1>1 DEF Rows, Inv, Counted
    <3>3. /\ n \in Nat /\ until \in 0 .. Block \cup {None}
          /\ n <= MaxAttempts /\ n + k <= given
          /\ until # None => given >= MaxFailures
      BY <1>1, <3>1, <3>2, FailedLoginsAssumption DEF FailedLogin, Caused
    <3> HIDE DEF n, until
    <3>4. Failed(n, until) \in FailedLogin /\ Caused(Failed(n, until), k, given)
      BY <1>1, <1>2, <3>3, FailedCaused
    <3>5. QED BY <3>1, <3>2, <3>4 DEF n, until
  <2>3. QED BY <2>1, <2>2
<1> DEFINE new == [logins[l] EXCEPT !.at = at, !.id = id, !.row = row]
<1>4. new \in Login /\ new.at = at /\ new.id = id /\ new.row = row
  BY <1>1 DEF Login, Waits, Saves
<1>5. logins' = [logins EXCEPT ![l] = new]
  BY <1>1, <1>3
<1> HIDE DEF new
<1>6. Cardinality(Finders') = k
  BY <1>1, <1>4, <1>5, FindersStep DEF Inv
<1>7. ASSUME NEW i \in RowIds, rows'[i] # None
      PROVE  Caused(rows'[i], Cardinality(Finders'), given)
  BY <1>1, <1>2, <1>6, <1>7 DEF Inv, Counted, Caused, FailedLogin
<1> HIDE DEF k
<1>8. QED BY <1>1, <1>3, <1>4, <1>5, <1>6, <1>7, CausesKept DEF history

\* A login that ends with its entity, or some columns of it, in the row.
LEMMA SaveStep ==
    ASSUME Inv, NEW l \in Logins, Saving(logins[l]), Refused(l), NEW new \in FailedLogin,
           rows' = [rows EXCEPT ![logins[l].id] = new],
           \/ new.failedAttempts = logins[l].row.failedAttempts
           \/ /\ rows[logins[l].id] # None
              /\ new.failedAttempts = rows[logins[l].id].failedAttempts,
           \/ new.blockedUntil = logins[l].row.blockedUntil
           \/ /\ rows[logins[l].id] # None
              /\ new.blockedUntil = rows[logins[l].id].blockedUntil
    PROVE  Inv'
<1> DEFINE n == Cardinality(Finders)
           id == logins[l].id
<1>1. /\ rows \in [RowIds -> FailedLogin \cup {None}]
      /\ id \in RowIds /\ Caused(logins[l].row, n, given)
      /\ rows[id] # None => Caused(rows[id], n, given)
  BY DEF Inv, TypeOK, Counted
<1>2. Caused(new, n, given)
  BY <1>1 DEF Caused
<1>3. l \notin Finders /\ logins' = [logins EXCEPT ![l] = None]
  BY DEF Finders, Waiting, Saving, Saves, Refused, End
<1>4. Cardinality(Finders') = n
  BY <1>3, FindersStep DEF Inv
<1>5. /\ rows' \in [RowIds -> FailedLogin \cup {None}]
      /\ \A i \in RowIds : rows'[i] # None => Caused(rows'[i], n, given)
  BY <1>1, <1>2 DEF Inv, Counted
<1>6. streak' \in 0 .. MaxFailures + 1 /\ sinceWrong' \in 0 .. Block /\ Remember
  BY FailedLoginsAssumption DEF Refused, Inv, TypeOK
<1> HIDE DEF n
<1>7. QED BY <1>3, <1>4, <1>5, <1>6, CausesKept DEF Saving

LEMMA TickStep ==
    ASSUME Inv, Tick
    PROVE  Inv'
<1>1. /\ rows \in [RowIds -> FailedLogin \cup {None}]
      /\ rows' = [id \in RowIds |-> Elapsed(rows[id])]
      /\ sinceWrong' \in 0 .. Block /\ UNCHANGED <<logins, streak, given>>
  BY FailedLoginsAssumption DEF Inv, TypeOK, Tick
<1>2. ASSUME NEW row \in FailedLogin \cup {None}
      PROVE  /\ Elapsed(row) \in FailedLogin \cup {None}
             /\ Elapsed(row) = None => row = None
             /\ row # None => Elapsed(row).failedAttempts = row.failedAttempts
             /\ row # None /\ Elapsed(row).blockedUntil # None => row.blockedUntil # None
             /\ row = None => Elapsed(row) = None
  BY NoneAssumption, FailedLoginsAssumption DEF FailedLogin, Elapsed
<1>3. Finders' = Finders /\ MaxGiven' = MaxGiven
  BY <1>1 DEF Finders, Waiting, MaxGiven
<1>4. TypeOK'
  BY <1>1, <1>2, <1>3 DEF Inv, TypeOK
<1>5. ASSUME NEW id \in RowIds, rows'[id] # None
      PROVE  Caused(rows'[id], Cardinality(Finders'), given')
  <2>1. rows[id] # None /\ Caused(rows[id], Cardinality(Finders), given)
    BY <1>1, <1>2, <1>5 DEF Inv, Counted
  <2>2. /\ rows'[id].failedAttempts = rows[id].failedAttempts
        /\ rows'[id].blockedUntil # None => rows[id].blockedUntil # None
    BY <1>1, <1>2, <1>5, <2>1
  <2>3. QED BY <1>1, <1>3, <2>1, <2>2 DEF Caused
<1>6. Counted'
  BY <1>1, <1>3, <1>5 DEF Inv, Counted, Saving
<1>7. QED BY <1>4, <1>6 DEF Inv

LEMMA WrongPasswordStep ==
    ASSUME Inv, NEW l \in Logins, WrongPassword(l)
    PROVE  Inv'
<1>1. /\ logins \in [Logins -> Login \cup {None}] /\ l \notin Finders
      /\ logins[l] # None /\ Goto(l, "find")
      /\ given' = IF given < MaxGiven THEN given + 1 ELSE given
      /\ UNCHANGED <<rows, streak, sinceWrong>>
      /\ given \in 0 .. MaxGiven /\ Cardinality(Finders) <= given
      /\ Cardinality(Finders) \in Nat /\ MaxGiven = MaxAttempts + Cardinality(Logins)
      /\ Cardinality(Logins) \in Nat /\ MaxAttempts \in Nat
  BY FiniteFinders, FailedLoginsAssumption
     DEF Inv, TypeOK, Counted, WrongPassword, Waiting, Finders, MaxGiven
<1>2. PICK new \in Login : /\ logins' = [logins EXCEPT ![l] = new]
                           /\ new.at = "find" /\ new # None
  BY <1>1, GotoStep DEF Inv, Waits
<1>3. Cardinality(Finders') = Cardinality(Finders) + 1
  BY <1>1, <1>2, FindersStep DEF Inv
<1>4. Cardinality(Finders') <= Cardinality(Logins)
  <2>1. (Cardinality(Finders) <= Cardinality(Logins))'
    BY FiniteFinders, PTL
  <2>2. QED BY <2>1
<1>5. given' \in 0 .. MaxGiven /\ given <= given'
  BY <1>1
<1>6. ASSUME NEW row \in FailedLogin, Caused(row, Cardinality(Finders), given)
      PROVE  Caused(row, Cardinality(Finders'), given')
  BY <1>1, <1>3, <1>4, <1>6, FailedLoginsAssumption DEF Caused, FailedLogin
<1>7. Cardinality(Finders') <= given'
  BY <1>1, <1>3, <1>4
<1>8. MaxGiven' = MaxGiven
  BY DEF MaxGiven
<1>9. TypeOK'
  BY <1>1, <1>2, <1>5, <1>8 DEF Inv, TypeOK
<1>10. \A k \in Logins : Saving(logins'[k]) => logins'[k] = logins[k]
  BY <1>1, <1>2 DEF Saving, Saves
<1>11. Counted'
  <2>1. \A id \in RowIds : rows'[id] # None =>
            rows[id] \in FailedLogin /\ Caused(rows[id], Cardinality(Finders), given)
    BY <1>1 DEF Inv, TypeOK, Counted
  <2>2. \A k \in Logins : Saving(logins'[k]) =>
            /\ logins'[k].id \in RowIds /\ logins'[k].row \in FailedLogin
            /\ Caused(logins'[k].row, Cardinality(Finders), given)
    BY <1>10 DEF Inv, Counted
  <2>3. QED BY <1>1, <1>6, <1>7, <2>1, <2>2 DEF Counted, Saving
<1>12. QED BY <1>9, <1>11 DEF Inv

LEMMA StepInv == Inv /\ [Next]_vars => Inv'
<1> SUFFICES ASSUME Inv, [Next]_vars PROVE Inv'
  OBVIOUS
<1>1. /\ rows \in [RowIds -> FailedLogin \cup {None}]
      /\ logins \in [Logins -> Login \cup {None}]
      /\ streak \in 0 .. MaxFailures + 1
      /\ sinceWrong \in 0 .. Block
      /\ 0 \in 0 .. MaxFailures + 1
  BY FailedLoginsAssumption DEF Inv, TypeOK
<1>2. ASSUME NEW l \in Logins, StartLogin(l)
      PROVE  Inv'
  <2> DEFINE new == [at |-> "isBlocked", id |-> None, row |-> None, changed |-> {}]
  <2>1. new \in Login /\ new.at = "isBlocked"
    BY DEF Login, Waits, Columns
  <2>2. logins' = [logins EXCEPT ![l] = new] /\ UNCHANGED <<rows, history>>
    BY <1>2 DEF StartLogin
  <2> HIDE DEF new
  <2>3. QED BY <1>1, <2>1, <2>2, MoveStep DEF history, Saving, Saves
<1>3. ASSUME NEW l \in Logins, End(l), rows' = rows \/ rows' = NoRows,
             Remember \/ given' = given,
             streak' \in 0 .. MaxFailures + 1, sinceWrong' \in 0 .. Block
      PROVE  Inv'
  BY <1>3, MoveStep DEF End, Saving
<1>4. ASSUME NEW l \in Logins, NEW at \in Waits \ {"find"}, logins[l] # None, Goto(l, at),
             at \in Saves => logins[l].at \in Saves,
             rows' = rows \/ rows' = NoRows, Remember \/ given' = given,
             UNCHANGED <<streak, sinceWrong>>
      PROVE  Inv'
  <2>1. PICK new \in Login :
            /\ logins' = [logins EXCEPT ![l] = new]
            /\ new.at = at /\ new.id = logins[l].id /\ new.row = logins[l].row
    BY <1>4, GotoStep DEF Inv
  <2>2. QED BY <1>1, <1>4, <2>1, MoveStep DEF Saving
<1>5. ASSUME NEW l \in Logins, IsBlocked(l)
      PROVE  Inv'
  <2>1. logins[l] # None /\ UNCHANGED <<rows, history>>
        /\ (Goto(l, "compare") \/ Goto(l, "unblock") \/ End(l))
    BY <1>5 DEF IsBlocked, Waiting
  <2>2. QED BY <1>1, <1>3, <1>4, <2>1 DEF Waits, Saves, history
<1>6. ASSUME NEW l \in Logins, ResetAfterBlock(l)
      PROVE  Inv'
  BY <1>4, <1>6 DEF ResetAfterBlock, Waiting, Waits, Saves
<1>7. ASSUME NEW l \in Logins, RightPassword(l)
      PROVE  Inv'
  BY <1>4, <1>7 DEF RightPassword, Waiting, Waits, Saves, history
<1>8. ASSUME NEW l \in Logins, WrongPassword(l)
      PROVE  Inv'
  BY <1>8, WrongPasswordStep
<1>9. ASSUME NEW l \in Logins, FindFailedLogin(l)
      PROVE  Inv'
  BY <1>9, FindStep
<1>10. ASSUME NEW l \in Logins, Refused(l)
       PROVE  /\ End(l) /\ Remember
              /\ streak' \in 0 .. MaxFailures + 1 /\ sinceWrong' \in 0 .. Block
  BY <1>1, <1>10, FailedLoginsAssumption DEF Refused
<1>11. ASSUME NEW l \in Logins, LoadFailedLogin(l)
       PROVE  Inv'
  <2>1. UNCHANGED rows /\ logins[l] # None /\ logins[l].at = "load" /\ logins[l] \in Login
    BY <1>1, <1>11 DEF LoadFailedLogin, Waiting
  <2>2. CASE Goto(l, "insert") /\ UNCHANGED history
    BY <1>4, <2>1, <2>2 DEF Waits, Saves, history
  <2>3. CASE Refused(l)
    BY <1>3, <1>10, <2>1, <2>3
  <2>4. ASSUME NEW changed \in SUBSET Columns,
               logins' = [logins EXCEPT ![l].at = "update", ![l].changed = changed],
               UNCHANGED history
        PROVE  Inv'
    <3> DEFINE new == [logins[l] EXCEPT !.at = "update", !.changed = changed]
    <3>1. /\ new \in Login /\ new.at = "update"
          /\ new.id = logins[l].id /\ new.row = logins[l].row
      BY <2>1 DEF Login, Waits, Saves
    <3>2. logins' = [logins EXCEPT ![l] = new]
      BY <1>1, <2>1, <2>4
    <3> HIDE DEF new
    <3>3. QED BY <1>1, <2>1, <2>4, <3>1, <3>2, MoveStep DEF Saving, Saves, history
  <2>5. ASSUME NEW row, NEW entity PROVE Diff(row, entity) \subseteq SUBSET Columns
    BY DEF Diff, Columns
  <2>6. QED BY <1>11, <2>2, <2>3, <2>4, <2>5 DEF LoadFailedLogin
<1>12. ASSUME NEW l \in Logins, UpdateFailedLogin(l)
       PROVE  Inv'
  <2> DEFINE id == logins[l].id
             new == Updated(rows[id], logins[l].row, logins[l].changed)
  <2>1. Saving(logins[l]) /\ Refused(l)
    BY <1>12 DEF UpdateFailedLogin, Waiting, Saving, Saves
  <2>2. CASE id \in Rows
    <3>1. /\ rows' = [rows EXCEPT ![id] = new] /\ rows[id] # None
          /\ rows[id] \in FailedLogin /\ logins[l].row \in FailedLogin
      BY <1>1, <1>12, <2>1, <2>2 DEF UpdateFailedLogin, Rows, Inv, Counted
    <3>2. /\ new \in FailedLogin
          /\ \/ new.failedAttempts = logins[l].row.failedAttempts
             \/ new.failedAttempts = rows[id].failedAttempts
          /\ \/ new.blockedUntil = logins[l].row.blockedUntil
             \/ new.blockedUntil = rows[id].blockedUntil
      BY <3>1 DEF Updated, FailedLogin
    <3> HIDE DEF new
    <3>3. QED BY <2>1, <3>1, <3>2, SaveStep
  <2>3. CASE id \notin Rows
    <3>1. rows' = rows
      BY <1>12, <2>3 DEF UpdateFailedLogin
    <3>2. QED BY <1>3, <1>10, <2>1, <3>1
  <2>4. QED BY <2>2, <2>3
<1>13. ASSUME NEW l \in Logins, InsertFailedLogin(l)
       PROVE  Inv'
  <2>1. /\ Saving(logins[l]) /\ Refused(l)
        /\ rows' = [rows EXCEPT ![logins[l].id] = logins[l].row]
    BY <1>13 DEF InsertFailedLogin, Waiting, Saving, Saves
  <2>2. logins[l].row \in FailedLogin
    BY <2>1 DEF Inv, Counted
  <2>3. QED BY <2>1, <2>2, SaveStep
<1>14. ASSUME NEW l \in Logins, ResetFailedLogin(l)
       PROVE  Inv'
  BY <1>1, <1>3, <1>14 DEF ResetFailedLogin
<1>15. ASSUME NEW l \in Logins, DatabaseFails(l)
       PROVE  Inv'
  BY <1>1, <1>3, <1>15 DEF DatabaseFails
<1>16. CASE Tick
  BY <1>16, TickStep
<1>17. CASE UNCHANGED vars
  <2>1. UNCHANGED <<rows, logins, streak, sinceWrong, given>>
    BY <1>17 DEF vars, history
  <2>2. Finders' = Finders /\ MaxGiven' = MaxGiven
    BY <2>1 DEF Finders, Waiting, MaxGiven
  <2>3. QED BY <2>1, <2>2 DEF Inv, TypeOK, Counted, Saving
<1>18. QED
  BY <1>2, <1>5, <1>6, <1>7, <1>8, <1>9, <1>11, <1>12, <1>13, <1>14, <1>15, <1>16, <1>17
     DEF Next, Answered

\* Whatever the order of overlapping logins and of the columns they write: a row
\* counts no password twice and no refused login, and a block has as many wrong
\* passwords behind it as the limit asks for.
THEOREM BlocksAreCaused == Spec => [](TypeOK /\ BlockedForCause)
<1>1. Inv => TypeOK /\ BlockedForCause
  <2> SUFFICES ASSUME Inv, NEW id \in Rows
               PROVE  /\ rows[id].failedAttempts <= given
                      /\ rows[id].blockedUntil # None => given >= MaxFailures
    BY DEF Inv, BlockedForCause
  <2>1. /\ id \in RowIds /\ rows[id] # None /\ rows[id].failedAttempts \in Nat
        /\ given \in Nat
    BY FiniteFinders DEF Inv, TypeOK, Rows, FailedLogin
  <2>2. Caused(rows[id], Cardinality(Finders), given)
    BY <2>1 DEF Inv, Counted
  <2>3. QED BY <2>1, <2>2, FiniteFinders DEF Caused
<1>2. QED BY InitInv, StepInv, <1>1, PTL DEF Spec

-------------------------------------------------------------------------------
(* Logins one by one. *)

\* What a login has learnt of the table is still true.
Current(login) ==
    /\ login.at = "unblock" => \A id \in Rows : rows[id].blockedUntil = 0
    /\ login.at \in {"compare", "find", "reset"} \cup Saves =>
          \A id \in Rows : rows[id].blockedUntil = None
    /\ login.at \in {"load", "update"} =>
          /\ Rows = {login.id}
          /\ login.row = Failed(rows[login.id].failedAttempts + 1, None)
    /\ login.at = "update" =>
          /\ "failedAttempts" \in login.changed
          /\ login.row.blockedUntil # None => "blockedUntil" \in login.changed
    /\ login.at = "insert" => Rows = {} /\ login.row = Failed(1, None)

OneRow == \A i, j \in Rows : i = j

\* The row counts the streak, and a block that has reached its end leaves a pause
\* of its own length behind.
StreakInv ==
    /\ GuessesBounded
    /\ Rows = {} => streak = 0 \/ sinceWrong = Block
    /\ \A id \in Rows :
          /\ rows[id].failedAttempts <= MaxFailures
          /\ rows[id].failedAttempts = MaxFailures => rows[id].blockedUntil # None
          /\ streak <= rows[id].failedAttempts
          /\ rows[id].blockedUntil # None => rows[id].blockedUntil + sinceWrong = Block

OneByOneInv ==
    /\ OneLogin
    /\ OneRow
    /\ StreakInv
    /\ \A l \in Logins : logins[l] # None => Current(logins[l])

\* A login that goes on without writing, with what it learns.
LEMMA LearnStep ==
    ASSUME OneByOneInv, OneLogin', NEW l \in Logins, UNCHANGED <<rows, streak, sinceWrong>>,
           \A k \in Logins \ {l} : logins'[k] = logins[k],
           logins'[l] # None => Current(logins'[l])
    PROVE  OneByOneInv'
<1>1. (OneRow /\ StreakInv)'
  BY DEF OneByOneInv, OneRow, StreakInv, GuessesBounded, Rows
<1>2. ASSUME NEW login, Current(login)
      PROVE  /\ login.at = "unblock" => \A id \in Rows' : rows'[id].blockedUntil = 0
             /\ login.at \in {"compare", "find", "reset"} \cup Saves =>
                   \A id \in Rows' : rows'[id].blockedUntil = None
             /\ login.at \in {"load", "update"} =>
                   /\ Rows' = {login.id}
                   /\ login.row = Failed(rows'[login.id].failedAttempts + 1, None)
             /\ login.at = "update" =>
                   /\ "failedAttempts" \in login.changed
                   /\ login.row.blockedUntil # None => "blockedUntil" \in login.changed
             /\ login.at = "insert" => Rows' = {} /\ login.row = Failed(1, None)
  BY <1>2 DEF Current, Rows
<1>3. ASSUME NEW k \in Logins, logins'[k] # None
      PROVE  Current(logins'[k])
  BY <1>3 DEF OneByOneInv
<1>4. \A k \in Logins : logins'[k] # None => Current(logins[k])'
  BY <1>2, <1>3 DEF Current
<1>5. QED BY <1>1, <1>4 DEF OneByOneInv

\* The row that a login writes: there is no other, and it is written as a whole.
LEMMA SavedRow ==
    ASSUME Inv, OneByOneInv, NEW l \in Logins, UpdateFailedLogin(l) \/ InsertFailedLogin(l)
    PROVE  LET id == logins[l].id
               row == logins[l].row IN
           /\ rows' = [rows EXCEPT ![id] = row]
           /\ id \in RowIds /\ row \in FailedLogin
           /\ Rows \subseteq {id}
           /\ row.failedAttempts \in Nat \ {0}
           /\ row.failedAttempts <= MaxFailures
           /\ row.failedAttempts = MaxFailures => row.blockedUntil # None
           /\ Rows = {} => row.failedAttempts = 1
           /\ id \in Rows => row.failedAttempts = rows[id].failedAttempts + 1
           /\ row.blockedUntil \in {None, Block}
<1> DEFINE id == logins[l].id
           row == logins[l].row
<1>1. /\ id \in RowIds /\ row \in FailedLogin
      /\ logins[l] # None /\ Current(logins[l])
  BY DEF Inv, Counted, OneByOneInv, UpdateFailedLogin, InsertFailedLogin, Waiting, Saving, Saves
<1>2. CASE InsertFailedLogin(l)
  <2>1. Rows = {} /\ row = Failed(1, None) /\ rows' = [rows EXCEPT ![id] = row]
    BY <1>1, <1>2 DEF InsertFailedLogin, Waiting, Current
  <2>2. /\ row.failedAttempts = 1
        /\ row.blockedUntil = IF 1 >= MaxFailures THEN Block ELSE None
    BY <2>1 DEF Failed
  <2>3. Block # None
    BY FailedLoginsAssumption, NoneAssumption
  <2> HIDE DEF row, id
  <2>4. QED BY <1>1, <2>1, <2>2, <2>3, FailedLoginsAssumption DEF row, id
<1>3. CASE UpdateFailedLogin(l)
  <2> DEFINE n == rows[id].failedAttempts
             changed == logins[l].changed
  <2>1. /\ Rows = {id} /\ row = Failed(n + 1, None) /\ rows[id].blockedUntil = None
        /\ "failedAttempts" \in changed
        /\ row.blockedUntil # None => "blockedUntil" \in changed
        /\ rows' = [rows EXCEPT ![id] = Updated(rows[id], row, changed)]
    BY <1>1, <1>3 DEF UpdateFailedLogin, Waiting, Current, Saves
  <2>2. Updated(rows[id], row, changed) = row
    BY <1>1, <2>1 DEF Updated, FailedLogin
  <2>3. n \in Nat /\ n < MaxFailures
    <3>1. rows[id] \in FailedLogin
      BY <1>1, <2>1 DEF Inv, TypeOK, Rows
    <3>2. n <= MaxFailures /\ n # MaxFailures
      BY <2>1 DEF OneByOneInv, StreakInv
    <3>3. QED BY <3>1, <3>2, FailedLoginsAssumption DEF FailedLogin
  <2>4. /\ row.failedAttempts = n + 1
        /\ row.blockedUntil = IF n + 1 >= MaxFailures THEN Block ELSE None
    BY <2>1 DEF Failed
  <2>5. Block # None
    BY FailedLoginsAssumption, NoneAssumption
  <2>6. rows' = [rows EXCEPT ![id] = row]
    BY <2>1, <2>2
  <2> HIDE DEF row, id
  <2>7. /\ row.failedAttempts \in Nat \ {0} /\ row.failedAttempts <= MaxFailures
        /\ row.failedAttempts = MaxFailures => row.blockedUntil # None
        /\ row.blockedUntil \in {None, Block}
    BY <2>3, <2>4, <2>5, FailedLoginsAssumption
  <2>8. QED BY <1>1, <2>1, <2>4, <2>6, <2>7 DEF row, id
<1>4. QED BY <1>2, <1>3

\* What a tick does to a row.
LEMMA ElapsedLemma ==
    ASSUME NEW row \in FailedLogin
    PROVE  /\ Elapsed(row) # None
           /\ Elapsed(row).failedAttempts = row.failedAttempts
           /\ Elapsed(row).blockedUntil =
                 IF row.blockedUntil \in 1 .. Block THEN row.blockedUntil - 1
                 ELSE row.blockedUntil
BY NoneAssumption, FailedLoginsAssumption DEF FailedLogin, Elapsed

LEMMA StepOneByOne == Inv /\ OneByOneInv /\ OneLogin' /\ [Next]_vars => OneByOneInv'
<1> SUFFICES ASSUME Inv, OneByOneInv, OneLogin', [Next]_vars PROVE OneByOneInv'
  OBVIOUS
<1> USE FailedLoginsAssumption, NoneAssumption DEF history, Saves
<1>1. /\ rows \in [RowIds -> FailedLogin \cup {None}]
      /\ logins \in [Logins -> Login \cup {None}]
      /\ streak \in Nat /\ streak <= MaxFailures
      /\ sinceWrong \in 0 .. Block
  BY DEF Inv, TypeOK, OneByOneInv, StreakInv, GuessesBounded
<1>2. ASSUME NEW l \in Logins, End(l), UNCHANGED <<rows, streak, sinceWrong>>
      PROVE  OneByOneInv'
  BY <1>1, <1>2, LearnStep DEF End
<1>3. ASSUME NEW l \in Logins, NEW at \in Waits, logins[l] # None, Goto(l, at)
      PROVE  /\ logins'[l].at = at /\ logins'[l] # None
             /\ \A k \in Logins \ {l} : logins'[k] = logins[k]
             /\ \A k \in Logins \ {l} : logins[k] = None
  BY <1>1, <1>3 DEF Goto, Login, OneByOneInv, OneLogin
<1>4. ASSUME NEW l \in Logins, StartLogin(l)
      PROVE  OneByOneInv'
  BY <1>1, <1>4, LearnStep DEF StartLogin, Current
<1>5. ASSUME NEW l \in Logins, IsBlocked(l)
      PROVE  OneByOneInv'
  <2>1. logins[l] # None /\ UNCHANGED <<rows, history>>
    BY <1>5 DEF IsBlocked, Waiting
  <2>2. CASE Goto(l, "compare") /\ \A id \in Rows : rows[id].blockedUntil = None
    <3>1. Current(logins'[l])
      BY <1>3, <2>1, <2>2 DEF Current, Waits
    <3>2. QED BY <1>3, <2>1, <2>2, <3>1, LearnStep DEF Waits
  <2>3. CASE Goto(l, "unblock") /\ \A id \in Rows : rows[id].blockedUntil = 0
    <3>1. Current(logins'[l])
      BY <1>3, <2>1, <2>3 DEF Current, Waits
    <3>2. QED BY <1>3, <2>1, <2>3, <3>1, LearnStep DEF Waits
  <2>4. CASE End(l)
    BY <1>2, <2>1, <2>4
  <2>5. QED BY <1>5, <2>2, <2>3, <2>4 DEF IsBlocked, OneByOneInv, OneRow
<1>6. ASSUME NEW l \in Logins, ResetAfterBlock(l)
      PROVE  OneByOneInv'
  <2>1. /\ logins[l] # None /\ Goto(l, "compare") /\ rows' = NoRows
        /\ UNCHANGED <<streak, sinceWrong>>
        /\ \A id \in Rows : rows[id].blockedUntil = 0
    BY <1>6 DEF ResetAfterBlock, Waiting, OneByOneInv, Current
  <2>2. streak = 0 \/ sinceWrong = Block
    BY <1>1, <2>1 DEF OneByOneInv, StreakInv
  <2>3. Rows' = {}
    BY <2>1 DEF NoRows, Rows
  <2>4. (OneRow /\ StreakInv)'
    BY <1>1, <2>1, <2>2, <2>3 DEF OneRow, StreakInv, GuessesBounded
  <2>5. \A k \in Logins : logins'[k] # None => logins'[k].at = "compare"
    BY <1>3, <2>1 DEF Waits
  <2>6. QED BY <2>3, <2>4, <2>5 DEF OneByOneInv, Current, Saves
<1>7. ASSUME NEW l \in Logins, RightPassword(l) \/ WrongPassword(l)
      PROVE  OneByOneInv'
  <2>1. /\ logins[l] # None /\ UNCHANGED <<rows, streak, sinceWrong>>
        /\ \A id \in Rows : rows[id].blockedUntil = None
    BY <1>7 DEF RightPassword, WrongPassword, Waiting, OneByOneInv, Current
  <2>2. PICK at \in {"reset", "find"} : Goto(l, at)
    BY <1>7 DEF RightPassword, WrongPassword
  <2>3. Current(logins'[l])
    BY <1>3, <2>1, <2>2 DEF Current, Waits
  <2>4. QED BY <1>3, <2>1, <2>2, <2>3, LearnStep DEF Waits
<1>8. ASSUME NEW l \in Logins, FindFailedLogin(l)
      PROVE  OneByOneInv'
  <2>1. /\ logins[l] \in Login /\ UNCHANGED <<rows, history>>
        /\ \A id \in Rows : rows[id].blockedUntil = None
    BY <1>1, <1>8 DEF FindFailedLogin, Waiting, OneByOneInv, Current
  <2>2. PICK id, at, row :
            /\ id \in RowIds /\ at \in {"load", "insert"}
            /\ at = "load" => Rows = {id} /\ row = Failed(rows[id].failedAttempts + 1, None)
            /\ at = "insert" => Rows = {} /\ row = Failed(1, None)
            /\ logins' = [logins EXCEPT ![l].at = at, ![l].id = id, ![l].row = row]
    <3>1. CASE Rows = {}
      BY <1>8, <3>1 DEF FindFailedLogin, FreshIds
    <3>2. CASE Rows # {}
      <4>1. PICK id \in Rows :
                logins' = [logins EXCEPT ![l].at = "load", ![l].id = id, ![l].row =
                    Failed(rows[id].failedAttempts + 1, rows[id].blockedUntil)]
        BY <1>8, <3>2 DEF FindFailedLogin
      <4>2. Rows = {id} /\ id \in RowIds /\ rows[id].blockedUntil = None
        BY <2>1 DEF OneByOneInv, OneRow, Rows
      <4>3. QED BY <4>1, <4>2
    <3>3. QED BY <3>1, <3>2
  <2> DEFINE new == [logins[l] EXCEPT !.at = at, !.id = id, !.row = row]
  <2>3. new.at = at /\ new.id = id /\ new.row = row
    BY <2>1 DEF Login
  <2>4. logins' = [logins EXCEPT ![l] = new]
    BY <1>1, <2>1, <2>2
  <2>5. Current(new)
    BY <2>1, <2>2, <2>3 DEF Current, Saves
  <2> HIDE DEF new
  <2>6. QED BY <1>1, <2>1, <2>4, <2>5, LearnStep
<1>9. ASSUME NEW l \in Logins, UpdateFailedLogin(l) \/ InsertFailedLogin(l)
      PROVE  OneByOneInv'
  <2> DEFINE id == logins[l].id
             row == logins[l].row
             n == row.failedAttempts
  <2>1. logins[l] # None /\ Refused(l)
    BY <1>9 DEF UpdateFailedLogin, InsertFailedLogin, Waiting
  <2>2. /\ id \in RowIds /\ row \in FailedLogin /\ row # None
        /\ Rows \subseteq {id}
        /\ n \in Nat \ {0} /\ n <= MaxFailures
        /\ n = MaxFailures => row.blockedUntil # None
        /\ Rows = {} => n = 1
        /\ id \in Rows => n = rows[id].failedAttempts + 1
        /\ row.blockedUntil \in {None, Block}
        /\ rows' = [rows EXCEPT ![id] = row]
    BY <1>9, SavedRow
  <2>3. /\ rows' = [rows EXCEPT ![id] = row]
        /\ logins' = [logins EXCEPT ![l] = None]
        /\ streak' = IF sinceWrong >= Block THEN 1
                     ELSE IF streak <= MaxFailures THEN streak + 1 ELSE streak
        /\ sinceWrong' = 0
    BY <2>1, <2>2 DEF Refused, End
  <2> HIDE DEF row, id
  <2>4. Rows' = {id} /\ rows'[id] = row
    BY <1>1, <2>2, <2>3 DEF Rows
  <2>5. streak' <= n
    <3>1. CASE Rows = {}
      BY <1>1, <2>2, <2>3, <3>1 DEF OneByOneInv, StreakInv
    <3>2. CASE Rows # {}
      <4>1. id \in Rows /\ rows[id].failedAttempts \in Nat
        BY <1>1, <2>2, <3>2 DEF Rows, FailedLogin
      <4>2. streak <= rows[id].failedAttempts
        BY <4>1 DEF OneByOneInv, StreakInv
      <4>3. QED BY <1>1, <2>2, <2>3, <4>1, <4>2
    <3>3. QED BY <3>1, <3>2
  <2>6. streak' <= MaxFailures
    BY <1>1, <2>2, <2>3, <2>5
  <2>7. (OneRow /\ StreakInv)'
    BY <2>2, <2>3, <2>4, <2>5, <2>6 DEF OneRow, StreakInv, GuessesBounded
  <2>8. \A k \in Logins : logins'[k] = None
    BY <1>1, <2>1, <2>3 DEF Waiting, OneByOneInv, OneLogin
  <2>9. QED BY <2>7, <2>8 DEF OneByOneInv
<1>10. ASSUME NEW l \in Logins, ResetFailedLogin(l)
       PROVE  OneByOneInv'
  <2>1. Rows' = {} /\ streak' = 0
    BY <1>10 DEF ResetFailedLogin, NoRows, Rows
  <2>2. \A k \in Logins : logins'[k] = None
    BY <1>1, <1>10 DEF ResetFailedLogin, End, Waiting, OneByOneInv, OneLogin
  <2>3. QED BY <2>1, <2>2 DEF OneByOneInv, OneRow, StreakInv, GuessesBounded
<1>11. ASSUME NEW l \in Logins, DatabaseFails(l)
       PROVE  OneByOneInv'
  BY <1>2, <1>11 DEF DatabaseFails
<1>12. CASE Tick
  <2>1. /\ rows' = [id \in RowIds |-> Elapsed(rows[id])]
        /\ sinceWrong' = IF sinceWrong < Block THEN sinceWrong + 1 ELSE sinceWrong
        /\ UNCHANGED <<logins, streak>>
        /\ \A l \in Logins : logins[l] # None => logins[l].at \notin Saves
    BY <1>12 DEF Tick, Waiting
  <2>2. /\ Rows' = Rows
        /\ \A id \in Rows : rows[id] \in FailedLogin /\ rows'[id] = Elapsed(rows[id])
    BY <1>1, <2>1, ElapsedLemma DEF Rows, Elapsed
  <2>3. ASSUME NEW id \in Rows
        PROVE  /\ rows'[id].failedAttempts = rows[id].failedAttempts
               /\ rows'[id].blockedUntil =
                     IF rows[id].blockedUntil \in 1 .. Block THEN rows[id].blockedUntil - 1
                     ELSE rows[id].blockedUntil
               /\ rows[id].blockedUntil \in 0 .. Block \cup {None}
    BY <2>2, ElapsedLemma DEF FailedLogin
  <2>4. ASSUME NEW id \in Rows, rows'[id].blockedUntil # None
        PROVE  rows'[id].blockedUntil + sinceWrong' = Block
    <3>1. /\ rows[id].blockedUntil \in 0 .. Block
          /\ rows[id].blockedUntil + sinceWrong = Block
      BY <2>3, <2>4 DEF OneByOneInv, StreakInv
    <3>2. CASE rows[id].blockedUntil = 0
      <4>1. rows'[id].blockedUntil = 0
        BY <2>3, <3>2
      <4>2. Block \in Nat /\ sinceWrong = Block
        BY <1>1, <3>1, <3>2, FailedLoginsAssumption
      <4>3. sinceWrong' = sinceWrong
        BY <2>1, <4>2
      <4>4. QED BY <4>1, <4>2, <4>3
    <3>3. ASSUME NEW b \in 1 .. Block, rows[id].blockedUntil = b
          PROVE  rows'[id].blockedUntil + sinceWrong' = Block
      <4>1. rows'[id].blockedUntil = b - 1 /\ sinceWrong = Block - b
        BY <1>1, <2>3, <3>1, <3>3
      <4>2. sinceWrong' = sinceWrong + 1
        BY <1>1, <2>1, <4>1
      <4>3. QED BY <4>1, <4>2
    <3>4. QED BY <3>1, <3>2, <3>3
  <2>5. StreakInv'
    <3>1. StreakInv
      BY DEF OneByOneInv
    <3>2. GuessesBounded'
      BY <2>1, <3>1 DEF StreakInv, GuessesBounded
    <3>3. (Rows = {} => streak = 0 \/ sinceWrong = Block)'
      BY <1>1, <2>1, <2>2, <3>1 DEF StreakInv
    <3>4. ASSUME NEW id \in Rows
          PROVE  /\ rows'[id].failedAttempts <= MaxFailures
                 /\ rows'[id].failedAttempts = MaxFailures => rows'[id].blockedUntil # None
                 /\ streak' <= rows'[id].failedAttempts
      <4>1. rows'[id].failedAttempts = rows[id].failedAttempts
        BY <2>3
      <4>2. rows[id].blockedUntil # None => rows'[id].blockedUntil # None
        <5>1. CASE rows[id].blockedUntil \in 1 .. Block
          <6>1. rows'[id].blockedUntil \in Nat
            BY <2>3, <5>1, FailedLoginsAssumption
          <6>2. QED BY <6>1, NoneAssumption
        <5>2. CASE rows[id].blockedUntil \notin 1 .. Block
          BY <2>3, <5>2
        <5>3. QED BY <5>1, <5>2
      <4>3. QED BY <2>1, <3>1, <4>1, <4>2 DEF StreakInv
    <3>5. QED BY <2>2, <2>4, <3>2, <3>3, <3>4 DEF StreakInv
  <2>6. OneRow'
    BY <2>2 DEF OneByOneInv, OneRow
  <2>7. ASSUME NEW l \in Logins, logins[l] # None
        PROVE  Current(logins[l])'
    <3>1. Current(logins[l]) /\ logins'[l] = logins[l] /\ logins[l].at \notin Saves
      BY <2>1, <2>7 DEF OneByOneInv
    <3>2. logins[l].at = "unblock" => \A id \in Rows : rows'[id].blockedUntil = 0
      BY <2>3, <3>1 DEF Current
    <3>3. logins[l].at \in {"compare", "find", "reset"} =>
             \A id \in Rows : rows'[id].blockedUntil = None
      BY <2>3, <3>1 DEF Current
    <3>4. QED BY <2>2, <3>1, <3>2, <3>3 DEF Current, Saves
  <2>8. QED BY <2>1, <2>5, <2>6, <2>7 DEF OneByOneInv
<1>13. CASE UNCHANGED vars
  BY <1>13 DEF vars, OneByOneInv, OneLogin, OneRow, StreakInv, GuessesBounded, Rows, Current
<1>14. ASSUME NEW l \in Logins, LoadFailedLogin(l)
       PROVE  OneByOneInv'
  <2> DEFINE row == logins[l].row
             old == rows[logins[l].id]
  <2>1. /\ logins[l] \in Login /\ logins[l] # None /\ logins[l].at = "load"
        /\ UNCHANGED rows /\ Current(logins[l])
    BY <1>1, <1>14 DEF LoadFailedLogin, Waiting, OneByOneInv
  <2>2. /\ Rows = {logins[l].id} /\ row = Failed(old.failedAttempts + 1, None)
        /\ old.blockedUntil = None /\ old # None /\ old \in FailedLogin
    BY <1>1, <2>1 DEF Current, Saves, Rows
  <2>3. /\ row["failedAttempts"] # old["failedAttempts"]
        /\ row.blockedUntil # None => row["blockedUntil"] # old["blockedUntil"]
    <3>1. row.failedAttempts = old.failedAttempts + 1 /\ old.failedAttempts \in Nat
      BY <2>2 DEF Failed, FailedLogin
    <3>2. row.failedAttempts # old.failedAttempts
      BY <3>1
    <3>3. QED BY <2>2, <3>2
  <2> HIDE DEF row, old
  <2>4. \A changed \in Diff(old, row) :
            /\ "failedAttempts" \in changed
            /\ row.blockedUntil # None => "blockedUntil" \in changed
    BY <2>3 DEF Diff, Columns
  <2>5. PICK changed \in Diff(old, row) :
            /\ logins' = [logins EXCEPT ![l].at = "update", ![l].changed = changed]
            /\ UNCHANGED history
    BY <1>14, <2>2, <2>4 DEF LoadFailedLogin, old, row
  <2> DEFINE new == [logins[l] EXCEPT !.at = "update", !.changed = changed]
  <2>6. /\ new.at = "update" /\ new.changed = changed
        /\ new.id = logins[l].id /\ new.row = row
    BY <2>1 DEF Login, row
  <2>7. logins' = [logins EXCEPT ![l] = new]
    BY <1>1, <2>1, <2>5
  <2>8. Current(new)
    BY <2>2, <2>4, <2>6 DEF Current, Saves, old
  <2> HIDE DEF new
  <2>9. QED BY <1>1, <2>1, <2>5, <2>7, <2>8, LearnStep
<1>15. QED
  BY <1>4, <1>5, <1>6, <1>7, <1>8, <1>9, <1>10, <1>11, <1>12, <1>13, <1>14
     DEF Next, Answered

-------------------------------------------------------------------------------
(* Signups. *)

SignupsType ==
    signups \in [Signups ->
        [at : {"find", "hash", "insert", "answered"}, email : Emails] \cup {None}]

SignupsInv == SignupsType /\ S!OneAccountPerEmail

\* The insert of an email that nobody has, for whichever step it is part of.
LEMMA InsertLemma ==
    ASSUME SignupsInv, NEW s \in Signups, S!Waiting(s, "insert"), ~S!Taken(signups[s].email),
           users' = users \cup {[email |-> signups[s].email, of |-> s]}
    PROVE  \A u, v \in users' : u.email = v.email => u = v
BY DEF SignupsInv, S!OneAccountPerEmail, S!Taken

\* A signup that was answered keeps its record and its account while others move.
LEMMA StepSignups == SignupsInv /\ [S!Next]_S!vars => SignupsInv'
<1> SUFFICES ASSUME SignupsInv, [S!Next]_S!vars PROVE SignupsInv'
  OBVIOUS
<1>1. CASE UNCHANGED S!vars
  BY <1>1 DEF SignupsInv, SignupsType, S!OneAccountPerEmail, S!Waiting, S!vars
<1>2. ASSUME NEW s \in Signups, NEW email \in Emails, S!Signup(s, email) PROVE SignupsInv'
  BY <1>2 DEF SignupsInv, SignupsType, S!OneAccountPerEmail, S!Waiting, S!Signup
<1>3. ASSUME NEW s \in Signups, S!FindByEmail(s) PROVE SignupsInv'
  BY <1>3 DEF SignupsInv, SignupsType, S!OneAccountPerEmail, S!Waiting,
              S!FindByEmail, S!Refuse, S!Goto
<1>4. ASSUME NEW s \in Signups, S!Hashed(s) PROVE SignupsInv'
  BY <1>4 DEF SignupsInv, SignupsType, S!OneAccountPerEmail, S!Waiting, S!Hashed, S!Goto
<1>5. ASSUME NEW s \in Signups, S!CreateUser(s) PROVE SignupsInv'
  <2>1. CASE ~S!Taken(signups[s].email)
    <3>1. /\ S!Goto(s, "answered") /\ S!Waiting(s, "insert")
          /\ users' = users \cup {[email |-> signups[s].email, of |-> s]}
      BY <1>5, <2>1 DEF S!CreateUser
    <3>2. QED
      BY <2>1, <3>1, InsertLemma
         DEF SignupsInv, SignupsType, S!OneAccountPerEmail, S!Waiting, S!Goto
  <2>2. CASE S!Taken(signups[s].email)
    BY <1>5, <2>2
       DEF SignupsInv, SignupsType, S!OneAccountPerEmail, S!Waiting, S!CreateUser, S!Refuse
  <2>3. QED BY <2>1, <2>2
<1>6. ASSUME NEW s \in Signups, S!DatabaseFails(s) PROVE SignupsInv'
  <2>1. S!Refuse(s) /\ ~S!Waiting(s, "answered")
    BY <1>6 DEF S!DatabaseFails, S!Waiting
  <2>2. CASE UNCHANGED users
    BY <2>1, <2>2 DEF SignupsInv, SignupsType, S!OneAccountPerEmail, S!Waiting, S!Refuse
  <2>3. CASE /\ S!Waiting(s, "insert") /\ ~S!Taken(signups[s].email)
             /\ users' = users \cup {[email |-> signups[s].email, of |-> s]}
    BY <2>1, <2>3, InsertLemma
       DEF SignupsInv, SignupsType, S!OneAccountPerEmail, S!Waiting, S!Refuse
  <2>4. QED BY <1>6, <2>2, <2>3 DEF S!DatabaseFails
<1>7. QED
  BY <1>1, <1>2, <1>3, <1>4, <1>5, <1>6 DEF S!Next

LEMMA InitSignups == S!Init => SignupsInv
BY DEF S!Init, SignupsInv, SignupsType, S!OneAccountPerEmail, S!Waiting

-------------------------------------------------------------------------------
(* The module auth. *)

AuthInv == Inv /\ SignupsInv /\ (about = "logins one by one" => OneByOneInv)

LEMMA AuthInductive == MCSpec => []AuthInv
<1>1. Init => OneByOneInv
  BY FailedLoginsAssumption
     DEF Init, OneByOneInv, OneLogin, OneRow, StreakInv, GuessesBounded, Rows
<1>2. MCInit => AuthInv
  BY <1>1, InitInv, InitSignups DEF MCInit, AuthInv
<1>3. AuthInv /\ [MCNext]_mcvars => AuthInv'
  <2> SUFFICES ASSUME AuthInv, [MCNext]_mcvars PROVE AuthInv'
    OBVIOUS
  <2>1. [Next]_vars /\ [S!Next]_S!vars /\ UNCHANGED about
    BY DEF MCNext, OfLogins, OfSignups, signupVars, mcvars, S!vars
  <2>2. Inv' /\ SignupsInv'
    BY <2>1, StepInv, StepSignups DEF AuthInv
  <2>3. ASSUME about = "logins one by one"
        PROVE  OneByOneInv'
    <3>1. OneLogin'
      BY <2>3 DEF AuthInv, OneByOneInv, OneLogin, MCNext, OfLogins, OfSignups, mcvars, vars
    <3>2. QED BY <2>1, <2>3, <3>1, StepOneByOne DEF AuthInv
  <2>4. QED BY <2>1, <2>2, <2>3 DEF AuthInv
<1>4. QED BY <1>2, <1>3, PTL DEF MCSpec

\* However many signups overlap and fail, an email has one account, and a signup
\* that was answered with tokens has it (signup, createUser).
THEOREM OneAccount == MCSpec => []OneAccountPerEmail
<1>1. AuthInv => OneAccountPerEmail
  BY DEF AuthInv, SignupsInv, OneAccountPerEmail
<1>2. QED BY <1>1, AuthInductive, PTL

\* Logins one by one answer no more than the limit of wrong passwords without a
\* pause of five minutes: the row counts them, and by the time it is deleted or
\* found to be unblocked that pause has been made, or a login has succeeded.
THEOREM GuessesAreBounded == MCSpec => []GuessesBoundedOneByOne
<1>1. AuthInv => GuessesBoundedOneByOne
  BY DEF AuthInv, OneByOneInv, StreakInv, GuessesBoundedOneByOne
<1>2. QED BY <1>1, AuthInductive, PTL

\* With logins one by one nothing but time ends a block: whoever may write the
\* table learnt that no block is in force, and that is still so.
THEOREM BlockLastsItsTime == MCSpec => BlockLastsOneByOne
<1>1. Inv /\ OneByOneInv /\ [Next]_vars => KeepsBlock
  <2> SUFFICES ASSUME Inv, OneByOneInv, [Next]_vars, InForce, ~Tick
               PROVE  InForce'
    BY DEF KeepsBlock
  <2>1. \A l \in Logins : logins[l] # None =>
           logins[l].at \notin {"unblock", "reset"} \cup Saves
    BY NoneAssumption, FailedLoginsAssumption DEF InForce, OneByOneInv, Current
  <2>2. UNCHANGED rows
    BY <2>1 DEF Next, Answered, StartLogin, IsBlocked, ResetAfterBlock, RightPassword,
                WrongPassword, FindFailedLogin, LoadFailedLogin, UpdateFailedLogin,
                InsertFailedLogin, ResetFailedLogin, DatabaseFails, Waiting, Saves, vars
  <2>3. QED BY <2>2 DEF InForce, Rows
<1>2. AuthInv /\ [MCNext]_mcvars => [about = "logins one by one" => KeepsBlock]_vars
  BY <1>1 DEF AuthInv, MCNext, OfLogins, OfSignups, mcvars
<1>3. QED BY <1>2, AuthInductive, PTL DEF MCSpec, BlockLastsOneByOne
===============================================================================
