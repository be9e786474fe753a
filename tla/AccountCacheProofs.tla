-------------------------- MODULE AccountCacheProofs --------------------------
(***************************************************************************)
(* Theorems about AccountCache: for any number of loaders and accounts,    *)
(* any length of a row's life and of an invocation, and any failures, the  *)
(* map a load returns is complete and recent; and, without failures, that  *)
(* lookups of an account are spaced.                                       *)
(***************************************************************************)
EXTENDS AccountCache, Integers, TLAPS

-----------------------------------------------------------------------------
(* Types *)

\* What is looked up is in the map.
BufferInMap ==
    \A w \in Loader : /\ \A a \in buffer[w] : map[w][a] # None
                      /\ pc[w] \in {"idle", "scan"} => buffer[w] = {}

TypeInv == TypeOK /\ BufferInMap

LEMMA RowFields ==
    ASSUME TypeOK, NEW a \in Account
    PROVE  rows[a].meta \in Value \cup {None} /\ rows[a].ttl \in Nat
  BY DEF TypeOK, Row, NoRow

LEMMA TypeInvInit == Init => TypeInv
<1> SUFFICES ASSUME Init PROVE TypeInv
  OBVIOUS
<1>1. TypeOK
  BY DEF Init, TypeOK, Empty
<1>2. BufferInMap
  BY DEF Init, BufferInMap
<1> QED BY <1>1, <1>2 DEF TypeInv

LEMMA WriteTypes ==
    ASSUME TypeInv, NEW w \in Loader, NEW sent \in SUBSET buffer[w], Write(w, sent)
    PROVE  rows' \in [Account -> Row \cup {NoRow}]
<1>1. ASSUME NEW a \in sent
      PROVE  [meta |-> map[w][a], ttl |-> ttl[w]] \in Row
  BY DEF TypeInv, TypeOK, BufferInMap, Row
<1> QED BY <1>1 DEF Write, TypeInv, TypeOK

LEMMA GoneTypes ==
    ASSUME TypeInv, NEW w \in Loader, Gone(w),
           faults' \in Nat, rows' \in [Account -> Row \cup {NoRow}]
    PROVE  TypeInv'
<1>1. TypeOK'
  BY DEF TypeInv, TypeOK, Gone, Goto, Empty, directory
<1>2. BufferInMap'
  <2>1. ASSUME NEW v \in Loader, v # w
        PROVE  buffer'[v] = buffer[v] /\ map'[v] = map[v] /\ pc'[v] = pc[v]
    BY <2>1 DEF TypeInv, TypeOK, Gone, Goto
  <2>2. buffer'[w] = {}
    BY DEF TypeInv, TypeOK, Gone
  <2> QED BY <2>1, <2>2 DEF TypeInv, BufferInMap
<1> QED BY <1>1, <1>2 DEF TypeInv

LEMMA FaultTypes == ASSUME TypeOK, NEW kind, Fails(kind) PROVE faults' \in Nat
  BY DEF TypeOK, Fails

LEMMA LookUpTypes ==
    ASSUME TypeInv, NEW w \in Loader, NEW a, NEW value \in Value, LookUp(w, a, value),
           faults' \in Nat, failedAt' \in [Account -> Nat]
    PROVE  TypeInv'
<1>1. a \in Account /\ value # None
  BY ValueAssumption DEF TypeInv, TypeOK, LookUp, Value
<1>2. TypeOK'
  BY <1>1 DEF TypeInv, TypeOK, LookUp, directory
<1>3. BufferInMap'
  BY <1>1 DEF TypeInv, TypeOK, BufferInMap, LookUp
<1> QED BY <1>2, <1>3 DEF TypeInv

LEMMA TypeInvNext == TypeInv /\ [Next]_vars => TypeInv'
<1> SUFFICES ASSUME TypeInv, [Next]_vars PROVE TypeInv'
  OBVIOUS
<1>1. CASE Tick
  BY <1>1 DEF Tick, TypeInv, TypeOK, BufferInMap, directory, loads
<1>2. ASSUME NEW a \in Account, Edit(a)
      PROVE  TypeInv'
  <2>1. meta' \in [Account -> Meta]
    BY <1>2 DEF Edit, TypeInv, TypeOK
  <2>2. closedAt' \in [Account -> Nat]
    BY <1>2 DEF Edit, TypeInv, TypeOK
  <2>3. replacedAt' \in [Account -> [Meta -> Nat]]
    <3>1. ASSUME NEW m, replacedAt' = [replacedAt EXCEPT ![a][meta[a]] = now]
          PROVE  replacedAt' \in [Account -> [Meta -> Nat]]
      <4>1. meta[a] \in Meta /\ now \in Nat /\ replacedAt[a] \in [Meta -> Nat]
        BY DEF TypeInv, TypeOK
      <4>2. [replacedAt[a] EXCEPT ![meta[a]] = now] \in [Meta -> Nat]
        BY <4>1
      <4>3. replacedAt \in [Account -> [Meta -> Nat]]
        BY DEF TypeInv, TypeOK
      <4> QED BY <3>1, <4>2, <4>3
    <3> QED BY <1>2, <3>1 DEF Edit, TypeInv, TypeOK
  <2>4. steady' \in [Loader -> SUBSET Account]
    BY <1>2 DEF Edit, TypeInv, TypeOK
  <2>5. active' \subseteq Account /\ edits' \in Nat
    BY <1>2 DEF Edit, TypeInv, TypeOK
  <2> QED BY <1>2, <2>1, <2>2, <2>3, <2>4, <2>5 DEF Edit, TypeInv, TypeOK, BufferInMap, loads
<1>3. ASSUME NEW a \in Account, Expire(a)
      PROVE  TypeInv'
  BY <1>3 DEF Expire, TypeInv, TypeOK, BufferInMap, loads, directory
<1>4. ASSUME NEW w \in Loader, Load(w)
      PROVE  TypeInv'
  <2>1. CASE Begin(w)
    <3>1. faults' \in Nat
      BY <2>1, FaultTypes DEF Begin, TypeInv, TypeOK
    <3> QED BY <2>1, <3>1 DEF Begin, Goto, TypeInv, TypeOK, BufferInMap, directory
  <2>2. CASE ScanOrgCache(w)
    <3>1. map' \in [Loader -> [Account -> Value \cup {None}]]
      BY <2>2, RowFields DEF ScanOrgCache, TypeInv, TypeOK
    <3>2. buffer[w] = {}
      BY <2>2 DEF ScanOrgCache, TypeInv, BufferInMap
    <3>3. \A v \in Loader : v # w => map'[v] = map[v] /\ pc'[v] = pc[v]
      BY <2>2 DEF ScanOrgCache, Goto, TypeInv, TypeOK
    <3>4. TypeOK'
      BY <2>2, <3>1 DEF ScanOrgCache, Goto, TypeInv, TypeOK, directory
    <3>5. BufferInMap'
      BY <2>2, <3>2, <3>3 DEF ScanOrgCache, TypeInv, BufferInMap
    <3> QED BY <3>4, <3>5 DEF TypeInv
  <2>3. CASE ListAccounts(w)
    BY <2>3 DEF ListAccounts, Goto, TypeInv, TypeOK, BufferInMap, directory
  <2>4. CASE Enrich(w)
    BY <2>4, TimeAssumption DEF Enrich, Goto, TypeInv, TypeOK, BufferInMap, directory
  <2>5. ASSUME NEW a \in Account, FetchAccountTags(w, a)
        PROVE  TypeInv'
    BY <2>5, LookUpTypes DEF FetchAccountTags, TypeInv, TypeOK, Value
  <2>6. ASSUME NEW a \in Account, FetchFails(w, a)
        PROVE  TypeInv'
    BY <2>6, LookUpTypes, FaultTypes DEF FetchFails, TypeInv, TypeOK, Value
  <2>7. CASE Flush(w)
    <3>1. PICK sent \in SUBSET buffer[w] :
              Write(w, sent) /\ buffer' = [buffer EXCEPT ![w] = @ \ sent]
      BY <2>7 DEF Flush
    <3>2. rows' \in [Account -> Row \cup {NoRow}]
      BY <3>1, WriteTypes
    <3> QED BY <2>7, <3>1, <3>2 DEF Flush, TypeInv, TypeOK, BufferInMap, directory
  <2>11. CASE Enriched(w)
    BY <2>11 DEF Enriched, Goto, TypeInv, TypeOK, BufferInMap, directory
  <2>8. CASE Return(w)
    BY <2>8, GoneTypes DEF Return, TypeInv, TypeOK
  <2>9. CASE LoadFails(w)
    BY <2>9, GoneTypes, FaultTypes DEF LoadFails, TypeInv, TypeOK
  <2>10. CASE WriteFails(w)
    BY <2>10, GoneTypes, WriteTypes, FaultTypes DEF WriteFails, TypeInv, TypeOK
  <2> QED BY <1>4, <2>1, <2>2, <2>3, <2>4, <2>5, <2>6, <2>7, <2>8, <2>9, <2>10, <2>11 DEF Load
<1>5. CASE UNCHANGED vars
  BY <1>5 DEF vars, directory, loads, TypeInv, TypeOK, BufferInMap
<1> QED BY <1>1, <1>2, <1>3, <1>4, <1>5 DEF Next

LEMMA TypeInvariant == Spec => []TypeInv
<1>1. Init => TypeInv
  BY TypeInvInit
<1>2. TypeInv /\ [Next]_vars => TypeInv'
  BY TypeInvNext
<1> QED BY <1>1, <1>2, PTL DEF Spec

\* Every variable keeps its type; in particular no row is written without tags or defaults.
THEOREM CacheTypeCorrect == Spec => []TypeOK
<1>1. TypeInv => TypeOK
  BY DEF TypeInv
<1> QED BY <1>1, TypeInvariant, PTL

-----------------------------------------------------------------------------
(* Completeness *)

\* From the listing on, a steady account is in the map or still to be looked up.
CompleteInv(w) ==
    /\ steady[w] \subseteq active
    /\ pc[w] \in {"enrich", "lookup", "done"} =>
           \A a \in steady[w] : map[w][a] # None \/ a \in misses[w]
    /\ pc[w] = "done" => misses[w] = {}

LEMMA CompleteStep ==
    ASSUME TypeInv, TypeInv', [Next]_vars, NEW w \in Loader, CompleteInv(w)
    PROVE  CompleteInv(w)'
<1>1. CASE Tick
  BY <1>1 DEF Tick, CompleteInv, directory, loads
<1>2. ASSUME NEW a \in Account, Edit(a)
      PROVE  CompleteInv(w)'
  BY <1>2 DEF Edit, CompleteInv, loads, TypeInv, TypeOK
<1>3. ASSUME NEW a \in Account, Expire(a)
      PROVE  CompleteInv(w)'
  BY <1>3 DEF Expire, CompleteInv, directory, loads
<1>4. ASSUME NEW v \in Loader, v # w, Load(v)
      PROVE  CompleteInv(w)'
  BY <1>4 DEF Load, Begin, ScanOrgCache, ListAccounts, Enrich, FetchAccountTags, FetchFails,
              LookUp, Flush, Enriched, WriteFails, LoadFails, Return, Gone, Goto, directory,
              CompleteInv, TypeInv, TypeOK
<1>5. CASE Load(w)
  <2>1. CASE Begin(w)
    BY <2>1 DEF Begin, Goto, directory, CompleteInv, TypeInv, TypeOK
  <2>2. CASE ScanOrgCache(w)
    BY <2>2 DEF ScanOrgCache, Goto, directory, CompleteInv, TypeInv, TypeOK
  <2>3. CASE ListAccounts(w)
    BY <2>3 DEF ListAccounts, Goto, directory, CompleteInv, TypeInv, TypeOK
  <2>4. CASE Enrich(w)
    BY <2>4 DEF Enrich, Goto, directory, CompleteInv, TypeInv, TypeOK
  <2>5. ASSUME NEW a \in Account, NEW value \in Value, LookUp(w, a, value)
        PROVE  CompleteInv(w)'
    BY <2>5, ValueAssumption DEF LookUp, directory, CompleteInv, TypeInv, TypeOK, Value
  <2>6. ASSUME NEW a \in Account, FetchAccountTags(w, a) \/ FetchFails(w, a)
        PROVE  CompleteInv(w)'
    BY <2>5, <2>6 DEF FetchAccountTags, FetchFails, TypeInv, TypeOK, Value
  <2>7. CASE Flush(w) \/ Enriched(w)
    BY <2>7 DEF Flush, Enriched, Goto, directory, CompleteInv, TypeInv, TypeOK
  <2>8. CASE Gone(w)
    BY <2>8 DEF Gone, Goto, directory, CompleteInv, TypeInv, TypeOK
  <2> QED BY <1>5, <2>1, <2>2, <2>3, <2>4, <2>6, <2>7, <2>8
          DEF Load, WriteFails, LoadFails, Return
<1>6. CASE UNCHANGED vars
  BY <1>6 DEF vars, directory, loads, CompleteInv
<1> QED BY <1>1, <1>2, <1>3, <1>4, <1>5, <1>6 DEF Next

\* An account that was active throughout a load is in the map it returns, whatever was
\* cached, expired or failed: _process_event drops no account for want of a row.
THEOREM CacheMapIsComplete == Spec => []MapIsComplete
<1> DEFINE Inv == \A w \in Loader : CompleteInv(w)
<1>1. Init => Inv
  BY DEF Init, CompleteInv
<1>2. TypeInv /\ TypeInv' /\ Inv /\ [Next]_vars => Inv'
  BY CompleteStep
<1>3. Inv => MapIsComplete
  BY DEF CompleteInv, MapIsComplete
<1> QED BY <1>1, <1>2, <1>3, TypeInvariant, PTL DEF Spec

-----------------------------------------------------------------------------
(* Recency *)

\* The account was active, and had these tags or a failed lookup, at time or later.
Open(a, time) == a \in active \/ time <= closedAt[a]

Had(a, value, time) ==
    \/ value = meta[a]
    \/ value \in Meta /\ time <= replacedAt[a][value]
    \/ value = Unknown /\ time <= failedAt[a]

Life == CacheTTL + Timeout

RowsRecent ==
    \A a \in Account : rows[a].meta # None =>
        /\ rows[a].ttl <= now + CacheTTL
        /\ Open(a, rows[a].ttl - Life) /\ Had(a, rows[a].meta, rows[a].ttl - Life)

\* A looked up account is as old as the load, a cached one a row's life older.
LoadRecent(w) ==
    /\ pc[w] \in {"idle", "scan"} => map[w] = Empty /\ misses[w] = {}
    /\ Busy(w) => started[w] <= now /\ now <= started[w] + Timeout
    /\ pc[w] \in {"lookup", "done"} =>
           ttl[w] <= now + CacheTTL /\ ttl[w] <= started[w] + Life
    /\ \A a \in misses[w] : Open(a, started[w])
    /\ \A a \in buffer[w] : Open(a, started[w]) /\ Had(a, map[w][a], started[w])
    /\ \A a \in Account : map[w][a] # None =>
           Open(a, started[w] + 1 - Life) /\ Had(a, map[w][a], started[w] + 1 - Life)

\* No step makes a fact older: what ends, ends now.
LEMMA FactsKeep ==
    ASSUME TypeInv, [Next]_vars, NEW a \in Account, NEW time \in Int, time <= now
    PROVE  /\ Open(a, time) => Open(a, time)'
           /\ \A value \in Value : Had(a, value, time) => Had(a, value, time)'
<1>1. ASSUME UNCHANGED directory, UNCHANGED failedAt
      PROVE  /\ Open(a, time) => Open(a, time)'
             /\ \A value \in Value : Had(a, value, time) => Had(a, value, time)'
  BY <1>1 DEF directory, Open, Had
<1>2. ASSUME NEW b \in Account, Edit(b)
      PROVE  /\ Open(a, time) => Open(a, time)'
             /\ \A value \in Value : Had(a, value, time) => Had(a, value, time)'
  <2>1. Open(a, time) => Open(a, time)'
    BY <1>2 DEF Edit, Open, TypeInv, TypeOK
  <2>2. ASSUME NEW value \in Value, Had(a, value, time)
        PROVE  Had(a, value, time)'
    <3>1. CASE UNCHANGED <<meta, replacedAt>>
      BY <1>2, <2>2, <3>1 DEF Edit, Had
    <3>2. ASSUME NEW m \in Meta \ {meta[b]},
                 meta' = [meta EXCEPT ![b] = m],
                 replacedAt' = [replacedAt EXCEPT ![b][meta[b]] = now]
          PROVE  Had(a, value, time)'
      <4>1. meta[b] \in Meta /\ replacedAt[b] \in [Meta -> Nat] /\ now \in Nat
            /\ replacedAt \in [Account -> [Meta -> Nat]] /\ meta \in [Account -> Meta]
        BY DEF TypeInv, TypeOK
      <4>2. \A x \in Meta : replacedAt'[a][x] = IF a = b /\ x = meta[b] THEN now ELSE replacedAt[a][x]
        BY <3>2, <4>1
      <4>3. meta'[a] = IF a = b THEN m ELSE meta[a]
        BY <3>2, <4>1
      <4>4. UNCHANGED failedAt
        BY <1>2 DEF Edit
      <4> QED BY <2>2, <4>1, <4>2, <4>3, <4>4 DEF Had
    <3> QED BY <1>2, <3>1, <3>2 DEF Edit
  <2> QED BY <2>1, <2>2
<1>3. ASSUME NEW w \in Loader, NEW b \in Account, FetchFails(w, b)
      PROVE  /\ Open(a, time) => Open(a, time)'
             /\ \A value \in Value : Had(a, value, time) => Had(a, value, time)'
  BY <1>3 DEF FetchFails, LookUp, directory, Open, Had, TypeInv, TypeOK
<1>4. \/ UNCHANGED directory /\ UNCHANGED failedAt
      \/ \E b \in Account : Edit(b)
      \/ \E w \in Loader, b \in Account : FetchFails(w, b)
  BY DEF Next, vars, Tick, Expire, Load, Begin, ScanOrgCache, ListAccounts, Enrich,
         FetchAccountTags, LookUp, Flush, Enriched, WriteFails, LoadFails, Return, Gone
<1> QED BY <1>1, <1>2, <1>3, <1>4

\* Time goes on, and no invocation outlives its timeout.
LEMMA Clock ==
    ASSUME TypeInv, [Next]_vars
    PROVE  /\ now' \in Nat /\ now <= now'
           /\ \A w \in Loader : Busy(w) /\ now <= started[w] + Timeout
                                 => now' <= started[w] + Timeout
<1>1. now \in Nat /\ started \in [Loader -> Nat] /\ Timeout \in Nat
  BY TimeAssumption DEF TypeInv, TypeOK
<1>2. CASE Tick
  BY <1>1, <1>2 DEF Tick
<1>3. CASE now' = now
  BY <1>1, <1>3
<1> QED BY <1>2, <1>3
        DEF Next, vars, Edit, Expire, Load, Begin, ScanOrgCache, ListAccounts, Enrich,
            FetchAccountTags, FetchFails, LookUp, Flush, Enriched, WriteFails, LoadFails, Return, Gone

\* A load that a step leaves alone stays recent.
LEMMA Untouched ==
    ASSUME TypeInv, [Next]_vars, NEW w \in Loader, LoadRecent(w),
           pc'[w] = pc[w], started'[w] = started[w], map'[w] = map[w],
           misses'[w] = misses[w], buffer'[w] = buffer[w], ttl'[w] = ttl[w]
    PROVE  LoadRecent(w)'
<1>1. /\ started[w] \in Nat /\ ttl[w] \in Nat /\ now \in Nat
      /\ CacheTTL \in Nat /\ Timeout \in Nat /\ Life > 0 /\ Life \in Nat
      /\ misses[w] \in SUBSET Account /\ buffer[w] \in SUBSET Account
      /\ map[w] \in [Account -> Value \cup {None}]
      /\ pc[w] \in {"idle", "scan", "list", "enrich", "lookup", "done"}
  BY TimeAssumption DEF TypeInv, TypeOK, Life
<1>2. PICK s \in Nat, m \in [Account -> Value \cup {None}],
           missed \in SUBSET Account, found \in SUBSET Account :
             s = started[w] /\ m = map[w] /\ missed = misses[w] /\ found = buffer[w]
  BY <1>1
<1>3. /\ \A a \in missed : Open(a, s)
      /\ \A a \in found : Open(a, s) /\ Had(a, m[a], s)
      /\ \A a \in Account : m[a] # None => Open(a, s + 1 - Life) /\ Had(a, m[a], s + 1 - Life)
  BY <1>2 DEF LoadRecent
<1>4. (\E a \in Account : m[a] # None) \/ missed # {} \/ found # {} => s <= now
  <2>1. CASE pc[w] = "idle"
    BY <1>2, <2>1 DEF LoadRecent, Empty, TypeInv, BufferInMap
  <2>2. CASE pc[w] # "idle"
    BY <1>2, <2>2 DEF LoadRecent, Busy
  <2> QED BY <2>1, <2>2
<1>5. \A a \in found : m[a] \in Value
  BY <1>2 DEF TypeInv, BufferInMap
<1>6. \A a \in missed : Open(a, s)'
  BY <1>3, <1>4, FactsKeep
<1>7. \A a \in found : Open(a, s)' /\ Had(a, m[a], s)'
  BY <1>3, <1>4, <1>5, FactsKeep
<1>8. \A a \in Account : m[a] # None => Open(a, s + 1 - Life)' /\ Had(a, m[a], s + 1 - Life)'
  <2> SUFFICES ASSUME NEW a \in Account, m[a] # None
               PROVE  Open(a, s + 1 - Life)' /\ Had(a, m[a], s + 1 - Life)'
    OBVIOUS
  <2>1. PICK c \in Int : c = s + 1 - Life /\ c <= now
    BY <1>1, <1>4
  <2>2. Open(a, c)' /\ Had(a, m[a], c)'
    BY <1>3, <2>1, FactsKeep
  <2> QED BY <2>1, <2>2 DEF Open, Had
<1>9. Busy(w)' => started[w]' <= now' /\ now' <= started[w]' + Timeout
  BY <1>1, Clock DEF LoadRecent, Busy
<1>10. pc'[w] \in {"lookup", "done"} =>
           ttl'[w] <= now' + CacheTTL /\ ttl'[w] <= started'[w] + Life
  BY <1>1, Clock DEF LoadRecent
<1>11. pc'[w] \in {"idle", "scan"} => map'[w] = Empty /\ misses'[w] = {}
  BY DEF LoadRecent
<1>12. s = started'[w] /\ m = map'[w] /\ missed = misses'[w] /\ found = buffer'[w]
  BY <1>2
<1> QED BY <1>6, <1>7, <1>8, <1>9, <1>10, <1>11, <1>12 DEF LoadRecent, Open, Had, Life

\* Less is asked of an earlier time.
LEMMA Earlier ==
    ASSUME TypeInv, NEW a \in Account, NEW value,
           NEW time \in Int, NEW before \in Int, before <= time
    PROVE  /\ Open(a, time) => Open(a, before)
           /\ Had(a, value, time) => Had(a, value, before)
<1>1. closedAt[a] \in Nat /\ failedAt[a] \in Nat /\ \A m \in Meta : replacedAt[a][m] \in Nat
  BY DEF TypeInv, TypeOK
<1> QED BY <1>1 DEF Open, Had

LEMMA RowKept ==
    ASSUME TypeInv, [Next]_vars, RowsRecent, NEW a \in Account, rows'[a] = rows[a],
           rows[a].meta # None
    PROVE  /\ rows'[a].ttl <= now' + CacheTTL
           /\ Open(a, rows[a].ttl - Life)' /\ Had(a, rows[a].meta, rows[a].ttl - Life)'
<1>1. PICK m \in Value, t \in Nat : m = rows[a].meta /\ t = rows[a].ttl
  BY RowFields DEF TypeInv
<1>2. now \in Nat /\ CacheTTL \in Nat /\ Timeout \in Nat /\ t <= now + CacheTTL
      /\ now' \in Nat /\ now <= now'
  BY <1>1, Clock, TimeAssumption DEF TypeInv, TypeOK, RowsRecent
<1>3. PICK c \in Int : c = t - Life /\ c <= now
  BY <1>2 DEF Life
<1>4. Open(a, c) /\ Had(a, m, c)
  BY <1>1, <1>3 DEF RowsRecent
<1>5. Open(a, c)' /\ Had(a, m, c)'
  BY <1>3, <1>4, FactsKeep
<1>6. m = rows'[a].meta /\ t = rows'[a].ttl /\ c = (rows[a].ttl - Life)'
  BY <1>1, <1>3 DEF Life
<1> QED BY <1>2, <1>5, <1>6 DEF Open, Had

\* The rows a load writes are as recent as its load.
LEMMA RowWritten ==
    ASSUME TypeInv, [Next]_vars, NEW w \in Loader, LoadRecent(w), pc[w] = "lookup",
           NEW a \in buffer[w], rows'[a] = [meta |-> map[w][a], ttl |-> ttl[w]],
           UNCHANGED now
    PROVE  /\ rows'[a].ttl <= now' + CacheTTL
           /\ Open(a, rows[a].ttl - Life)' /\ Had(a, rows[a].meta, rows[a].ttl - Life)'
<1>1. a \in Account /\ map[w][a] \in Value /\ started[w] \in Nat /\ ttl[w] \in Nat /\ now \in Nat
      /\ CacheTTL \in Nat /\ Timeout \in Nat
  BY TimeAssumption DEF TypeInv, TypeOK, BufferInMap
<1>2. started[w] <= now /\ ttl[w] <= now + CacheTTL /\ ttl[w] <= started[w] + Life
      /\ Open(a, started[w]) /\ Had(a, map[w][a], started[w])
  BY DEF LoadRecent, Busy
<1>3. PICK m \in Value, t \in Nat, s \in Nat : m = map[w][a] /\ t = ttl[w] /\ s = started[w]
  BY <1>1
<1>4. PICK c \in Int : c = t - Life /\ c <= s
  BY <1>1, <1>2, <1>3 DEF Life
<1>5. Open(a, c) /\ Had(a, m, c)
  BY <1>1, <1>2, <1>3, <1>4, Earlier
<1>6. Open(a, c)' /\ Had(a, m, c)'
  BY <1>1, <1>2, <1>3, <1>4, <1>5, FactsKeep
<1>7. m = rows'[a].meta /\ t = rows'[a].ttl /\ c = (rows[a].ttl - Life)'
  BY <1>3, <1>4 DEF Life
<1> QED BY <1>2, <1>3, <1>6, <1>7 DEF Open, Had

LEMMA RowsStep ==
    ASSUME TypeInv, TypeInv', [Next]_vars, RowsRecent, \A w \in Loader : LoadRecent(w)
    PROVE  RowsRecent'
<1> SUFFICES ASSUME NEW a \in Account, rows'[a].meta # None
             PROVE  /\ rows'[a].ttl <= now' + CacheTTL
                    /\ Open(a, rows[a].ttl - Life)' /\ Had(a, rows[a].meta, rows[a].ttl - Life)'
  BY DEF RowsRecent
<1>1. CASE rows'[a] = rows[a]
  BY <1>1, RowKept
<1>2. ASSUME NEW b \in Account, Expire(b)
      PROVE  rows'[a] = rows[a]
  BY <1>2 DEF Expire, NoRow, TypeInv, TypeOK
<1>3. ASSUME NEW w \in Loader, NEW sent \in SUBSET buffer[w], Write(w, sent),
             pc[w] = "lookup", UNCHANGED now
      PROVE  /\ rows'[a].ttl <= now' + CacheTTL
             /\ Open(a, rows[a].ttl - Life)' /\ Had(a, rows[a].meta, rows[a].ttl - Life)'
  <2>1. CASE a \in sent
    <3>1. rows'[a] = [meta |-> map[w][a], ttl |-> ttl[w]]
      BY <1>3, <2>1 DEF Write
    <3> QED BY <1>3, <2>1, <3>1, RowWritten
  <2>2. CASE a \notin sent
    <3>1. rows'[a] = rows[a]
      BY <1>3, <2>2 DEF Write
    <3> QED BY <1>1, <3>1
  <2> QED BY <2>1, <2>2
<1>4. \/ rows' = rows
      \/ \E b \in Account : Expire(b)
      \/ \E w \in Loader : \E sent \in SUBSET buffer[w] :
             Write(w, sent) /\ pc[w] = "lookup" /\ UNCHANGED now
  <2>1. ASSUME NEW w \in Loader, Flush(w) \/ WriteFails(w)
        PROVE  \E sent \in SUBSET buffer[w] :
                   Write(w, sent) /\ pc[w] = "lookup" /\ UNCHANGED now
    BY <2>1 DEF Flush, WriteFails, Sends, Gone
  <2> QED BY <2>1 DEF Next, vars, Tick, Edit, Load, Begin, ScanOrgCache, ListAccounts, Enrich,
              FetchAccountTags, FetchFails, LookUp, Enriched, LoadFails, Return
<1> QED BY <1>1, <1>2, <1>3, <1>4

\* A load that takes a step stays recent.
LEMMA LoadStep ==
    ASSUME TypeInv, TypeInv', [Next]_vars, NEW w \in Loader, LoadRecent(w), RowsRecent, Load(w)
    PROVE  LoadRecent(w)'
<1>1. /\ started[w] \in Nat /\ ttl[w] \in Nat /\ now \in Nat
      /\ CacheTTL \in Nat /\ Timeout \in Nat /\ Life \in Nat
      /\ misses[w] \in SUBSET Account /\ buffer[w] \in SUBSET Account
      /\ map[w] \in [Account -> Value \cup {None}]
      /\ pc[w] \in {"idle", "scan", "list", "enrich", "lookup", "done"}
  BY TimeAssumption DEF TypeInv, TypeOK, Life
<1>2. CASE Begin(w)
  BY <1>1, <1>2 DEF Begin, Goto, LoadRecent, Busy, Empty, TypeInv, TypeOK, BufferInMap
<1>3. CASE ScanOrgCache(w)
  <2>1. pc[w] = "scan" /\ pc'[w] = "list" /\ buffer'[w] = {} /\ misses'[w] = {}
        /\ started'[w] = started[w] /\ UNCHANGED <<now, directory, failedAt>>
    BY <1>3 DEF ScanOrgCache, Goto, LoadRecent, TypeInv, TypeOK, BufferInMap
  <2>2. \A a \in Account : map'[w][a] = IF rows[a].ttl > started[w] THEN rows[a].meta ELSE None
    BY <1>3 DEF ScanOrgCache, TypeInv, TypeOK
  <2>3. ASSUME NEW a \in Account, map'[w][a] # None
        PROVE  Open(a, started[w] + 1 - Life) /\ Had(a, map'[w][a], started[w] + 1 - Life)
    <3>1. rows[a].ttl \in Nat /\ rows[a].ttl > started[w] /\ map'[w][a] = rows[a].meta
          /\ rows[a].meta # None
      BY <2>2, <2>3, RowFields DEF TypeInv
    <3>2. Open(a, rows[a].ttl - Life) /\ Had(a, rows[a].meta, rows[a].ttl - Life)
      BY <3>1 DEF RowsRecent
    <3>3. /\ started[w] + 1 - Life \in Int /\ rows[a].ttl - Life \in Int
          /\ started[w] + 1 - Life <= rows[a].ttl - Life
      BY <1>1, <3>1
    <3> QED BY <3>1, <3>2, <3>3, Earlier
  <2>4. started[w] <= now /\ now <= started[w] + Timeout
    BY <2>1 DEF LoadRecent, Busy
  <2> QED BY <2>1, <2>3, <2>4 DEF LoadRecent, Busy, Open, Had, directory, Life
<1>4. CASE ListAccounts(w)
  BY <1>1, <1>4 DEF ListAccounts, Goto, LoadRecent, Busy, Open, Had, directory, Life, TypeInv, TypeOK
<1>5. CASE Enrich(w)
  BY <1>1, <1>5 DEF Enrich, Goto, LoadRecent, Busy, Open, Had, directory, Life, TypeInv, TypeOK
<1>6. CASE Flush(w) \/ Enriched(w)
  BY <1>1, <1>6 DEF Flush, Enriched, Sends, Goto, LoadRecent, Busy, Open, Had, directory, Life,
                    TypeInv, TypeOK
<1>7. CASE Gone(w)
  BY <1>1, <1>7 DEF Gone, Goto, LoadRecent, Busy, Empty, TypeInv, TypeOK

<1>8. ASSUME NEW a \in Account, FetchAccountTags(w, a) \/ FetchFails(w, a)
      PROVE  LoadRecent(w)'
  <2>1. PICK value \in Value : /\ LookUp(w, a, value)
                               /\ \/ value = meta[a]
                                  \/ value = Unknown /\ failedAt'[a] = now
    <3>1. CASE FetchAccountTags(w, a)
      <4>1. meta[a] \in Value /\ LookUp(w, a, meta[a])
        BY <3>1 DEF FetchAccountTags, TypeInv, TypeOK, Value
      <4> QED BY <4>1
    <3>2. CASE FetchFails(w, a)
      <4>1. Unknown \in Value /\ LookUp(w, a, Unknown) /\ failedAt'[a] = now
        BY <3>2 DEF FetchFails, TypeInv, TypeOK, Value
      <4> QED BY <4>1
    <3> QED BY <1>8, <3>1, <3>2
  <2>2. PICK s \in Nat, m \in [Account -> Value \cup {None}],
             missed \in SUBSET Account, found \in SUBSET Account :
               s = started[w] /\ m = map[w] /\ missed = misses[w] /\ found = buffer[w]
    BY <1>1
  <2>3. /\ a \in missed /\ pc[w] = "lookup" /\ pc'[w] = "lookup"
        /\ s = started'[w] /\ missed \ {a} = misses'[w] /\ found \cup {a} = buffer'[w]
        /\ map'[w] = [m EXCEPT ![a] = value] /\ ttl'[w] = ttl[w]
        /\ UNCHANGED <<now, directory>>
    BY <2>1, <2>2 DEF LookUp, TypeInv, TypeOK
  <2>4. /\ s <= now /\ now <= s + Timeout /\ ttl[w] <= now + CacheTTL /\ ttl[w] <= s + Life
        /\ \A b \in missed : Open(b, s)
        /\ \A b \in found : Open(b, s) /\ Had(b, m[b], s) /\ m[b] \in Value
        /\ \A b \in Account : m[b] # None =>
              Open(b, s + 1 - Life) /\ Had(b, m[b], s + 1 - Life)
    BY <2>2, <2>3 DEF LoadRecent, Busy, TypeInv, BufferInMap
  <2>5. PICK c \in Int : c = s + 1 - Life /\ c <= s
    BY <1>1, TimeAssumption DEF Life
  <2>6. Open(a, s) /\ Open(a, c)
    <3>1. Open(a, s)
      BY <2>3, <2>4
    <3>2. Open(a, s) => Open(a, c)
      BY <2>2, <2>5, Earlier
    <3> QED BY <3>1, <3>2
  <2>7. Open(a, s)' /\ Open(a, c)'
    BY <2>3, <2>6 DEF Open, directory
  <2>8. Had(a, value, s)' /\ Had(a, value, c)'
    <3>1. CASE value = meta[a]
      BY <2>3, <3>1 DEF Had, directory
    <3>2. CASE value = Unknown /\ failedAt'[a] = now
      BY <1>1, <2>4, <2>5, <3>2 DEF Had
    <3> QED BY <2>1, <3>1, <3>2
  <2>9. \A b \in missed : Open(b, s)'
    BY <2>3, <2>4 DEF Open, directory
  <2>10. \A b \in found : Open(b, s)' /\ Had(b, m[b], s)'
    BY <2>4, FactsKeep
  <2>11. \A b \in Account : m[b] # None => Open(b, c)' /\ Had(b, m[b], c)'
    BY <1>1, <2>4, <2>5, FactsKeep
  <2>12. \A b \in Account : map'[w][b] = IF b = a THEN value ELSE m[b]
    BY <2>3
  <2>13. \A b \in Account : map'[w][b] # None => Open(b, c)' /\ Had(b, map[w][b], c)'
    BY <2>7, <2>8, <2>11, <2>12 DEF Had
  <2>14. \A b \in found \cup {a} : Open(b, s)' /\ Had(b, map[w][b], s)'
    BY <2>7, <2>8, <2>10, <2>12 DEF Had
  <2>15. c = started'[w] + 1 - Life
    BY <2>3, <2>5 DEF Life
  <2>16. /\ pc'[w] = "lookup" /\ ttl'[w] <= now' + CacheTTL /\ ttl'[w] <= started'[w] + Life
         /\ started'[w] <= now' /\ now' <= started'[w] + Timeout
         /\ \A b \in misses'[w] : Open(b, s)'
    BY <2>3, <2>4, <2>9
  <2> QED BY <2>3, <2>13, <2>14, <2>15, <2>16 DEF LoadRecent, Open, Had, Life
<1> QED BY <1>2, <1>3, <1>4, <1>5, <1>6, <1>7, <1>8
        DEF Load, WriteFails, LoadFails, Return

LEMMA LoadsStep ==
    ASSUME TypeInv, TypeInv', [Next]_vars, RowsRecent, NEW w \in Loader, LoadRecent(w)
    PROVE  LoadRecent(w)'
<1>1. CASE Load(w)
  BY <1>1, LoadStep
<1>2. ASSUME NEW v \in Loader, v # w, Load(v)
      PROVE  LoadRecent(w)'
  <2>1. /\ pc'[w] = pc[w] /\ started'[w] = started[w] /\ map'[w] = map[w]
        /\ misses'[w] = misses[w] /\ buffer'[w] = buffer[w] /\ ttl'[w] = ttl[w]
    BY <1>2 DEF Load, Begin, ScanOrgCache, ListAccounts, Enrich, FetchAccountTags, FetchFails,
                LookUp, Flush, Enriched, WriteFails, LoadFails, Return, Gone, Goto, TypeInv, TypeOK
  <2> QED BY <2>1, Untouched
<1>3. CASE UNCHANGED loads
  BY <1>3, Untouched DEF loads
<1> QED BY <1>1, <1>2, <1>3 DEF Next, Tick, Edit, Expire, vars

\* What a map says of an account was so within the life of a row and two invocations: the
\* account was active then, and had these tags or could not be looked up.
THEOREM CacheMapIsRecent == Spec => []MapIsRecent
<1> DEFINE Inv == RowsRecent /\ \A w \in Loader : LoadRecent(w)
<1>1. Init => Inv
  BY DEF Init, RowsRecent, LoadRecent, NoRow, Empty, Busy
<1>2. TypeInv /\ TypeInv' /\ Inv /\ [Next]_vars => Inv'
  BY RowsStep, LoadsStep
<1>3. TypeInv /\ Inv => MapIsRecent
  <2> SUFFICES ASSUME TypeInv, Inv, NEW w \in Loader, NEW a \in Account,
                      pc[w] = "done", map[w][a] # None
               PROVE  /\ a \in active \/ Recent(closedAt[a])
                      /\ \/ map[w][a] = meta[a]
                         \/ map[w][a] \in Meta /\ Recent(replacedAt[a][map[w][a]])
                         \/ map[w][a] = Unknown /\ Recent(failedAt[a])
    BY DEF MapIsRecent
  <2>1. /\ started[w] \in Nat /\ now \in Nat /\ CacheTTL \in Nat /\ Timeout \in Nat
        /\ closedAt[a] \in Nat /\ failedAt[a] \in Nat
        /\ \A m \in Meta : replacedAt[a][m] \in Nat
    BY TimeAssumption DEF TypeInv, TypeOK
  <2>2. now <= started[w] + Timeout
    BY DEF LoadRecent, Busy
  <2>3. Open(a, started[w] + 1 - Life) /\ Had(a, map[w][a], started[w] + 1 - Life)
    BY DEF LoadRecent
  <2>4. ASSUME NEW t \in Nat, started[w] + 1 - Life <= t
        PROVE  Recent(t)
    BY <2>1, <2>2, <2>4 DEF Recent, Life
  <2> QED BY <2>1, <2>3, <2>4 DEF Open, Had
<1> QED BY <1>1, <1>2, <1>3, TypeInvariant, PTL DEF Spec

-----------------------------------------------------------------------------
(* Lookups are spaced *)

\* The life of a row, less an invocation, has passed since the lookup of a.
Old(a) == lookedUpAt[a] + CacheTTL <= now + Timeout

Written(a) == lookedUpAt[a] + CacheTTL <= rows[a].ttl + Timeout

\* What a load is about to look up was looked up long ago, and what it has looked up it
\* will write with a ttl that keeps others from doing so.
LoadSpaced(w) ==
    /\ Busy(w) => started[w] <= now /\ now <= started[w] + Timeout
    /\ pc[w] \in {"list", "enrich"} => buffer[w] = {}
    /\ pc[w] = "list" => \A a \in Account : (map[w][a] = None /\ lookedUpAt[a] # None) => Old(a)
    /\ pc[w] \in {"enrich", "lookup"} => \A a \in misses[w] : lookedUpAt[a] # None => Old(a)
    /\ pc[w] = "lookup" =>
          /\ started[w] + CacheTTL <= ttl[w]
          /\ \A a \in buffer[w] :
                lookedUpAt[a] # None => lookedUpAt[a] + CacheTTL <= ttl[w] + Timeout

SpaceInv ==
    faults = 0 =>
        /\ \A v, w \in Loader : Busy(v) /\ Busy(w) => v = w
        /\ \A w \in Loader : LoadSpaced(w)
        /\ \A a \in Account : lookedUpAt[a] # None =>
              \/ Old(a) \/ Written(a)
              \/ \E w \in Loader : pc[w] = "lookup" /\ a \in buffer[w]

LEMMA SpaceTypes ==
    ASSUME TypeInv
    PROVE  /\ now \in Nat /\ CacheTTL \in Nat /\ Timeout \in Nat
           /\ \A a \in Account : /\ rows[a].ttl \in Nat
                                 /\ lookedUpAt[a] # None => lookedUpAt[a] \in Nat
           /\ \A w \in Loader : started[w] \in Nat /\ ttl[w] \in Nat
<1>1. /\ now \in Nat /\ lookedUpAt \in [Account -> Nat \cup {None}]
      /\ started \in [Loader -> Nat] /\ ttl \in [Loader -> Nat]
  BY DEF TypeInv, TypeOK
<1>2. CacheTTL \in Nat /\ Timeout \in Nat
  BY TimeAssumption
<1> QED BY <1>1, <1>2, RowFields DEF TypeInv

\* Time passes, or a row expires.
LEMMA SpaceElapses ==
    ASSUME TypeInv, TypeInv', SpaceInv, UNCHANGED <<faults, loads, lookedUpAt>>, now <= now',
           \A w \in Loader :
              Busy(w) => now' = now \/ (now < started[w] + Timeout /\ now' = now + 1),
           \A a \in Account : rows'[a] = rows[a] \/ rows[a].ttl < now
    PROVE  SpaceInv'
<1> SUFFICES ASSUME faults = 0 PROVE SpaceInv'
  BY DEF SpaceInv
<1>1. /\ now \in Nat /\ now' \in Nat /\ CacheTTL \in Nat /\ Timeout \in Nat
      /\ \A a \in Account : /\ rows[a].ttl \in Nat
                            /\ lookedUpAt[a] # None => lookedUpAt[a] \in Nat
      /\ \A w \in Loader : started[w] \in Nat /\ ttl[w] \in Nat
  BY SpaceTypes DEF TypeInv, TypeOK
<1>2. ASSUME NEW a \in Account, lookedUpAt[a] # None, Old(a) PROVE Old(a)'
  BY <1>1, <1>2 DEF Old
<1>3. ASSUME NEW a \in Account, lookedUpAt[a] # None, Written(a) PROVE Written(a)' \/ Old(a)'
  BY <1>1, <1>3 DEF Written, Old
<1>4. UNCHANGED <<pc, started, map, misses, buffer, ttl>>
  BY DEF loads
<1>5. ASSUME NEW w \in Loader PROVE LoadSpaced(w)'
  <2>1. Busy(w)' => started'[w] <= now' /\ now' <= started'[w] + Timeout
    BY <1>1, <1>4 DEF SpaceInv, LoadSpaced, Busy
  <2>2. misses[w] \subseteq Account
    BY DEF TypeInv, TypeOK
  <2> QED BY <1>2, <1>4, <2>1, <2>2 DEF SpaceInv, LoadSpaced
<1> QED BY <1>2, <1>3, <1>4, <1>5 DEF SpaceInv, Busy

\* While no call failed, a load that goes on is the only one.
LEMMA OnlyOne ==
    ASSUME SpaceInv, faults = 0, NEW w \in Loader, Busy(w)
    PROVE  LoadSpaced(w) /\ \A v \in Loader : v # w => pc[v] = "idle"
  BY DEF SpaceInv, Busy

LEMMA IdleIsSpaced == ASSUME NEW w, pc[w] = "idle" PROVE LoadSpaced(w)
  BY DEF LoadSpaced, Busy

\* Steps of a load that leave the rows and the lookups alone.
LEMMA SpaceAdvances ==
    ASSUME TypeInv, TypeInv', SpaceInv, NEW w \in Loader,
           ScanOrgCache(w) \/ ListAccounts(w) \/ Enrich(w)
    PROVE  SpaceInv'
<1> SUFFICES ASSUME faults = 0 PROVE SpaceInv'
  BY DEF SpaceInv, ScanOrgCache, ListAccounts, Enrich
<1>1. /\ Busy(w) /\ pc[w] # "lookup" /\ pc'[w] # "idle"
      /\ \A v \in Loader : v # w => pc'[v] = pc[v]
      /\ UNCHANGED <<now, faults, rows, started, buffer, lookedUpAt>>
  BY DEF ScanOrgCache, ListAccounts, Enrich, Goto, Busy, TypeInv, TypeOK
<1>2. LoadSpaced(w) /\ \A v \in Loader : v # w => pc[v] = "idle"
  BY <1>1, OnlyOne
<1>3. \A a \in Account : (Old(a)' <=> Old(a)) /\ (Written(a)' <=> Written(a))
  BY <1>1 DEF Old, Written
<1>4. \A a \in Account : lookedUpAt[a] # None => Old(a) \/ Written(a)
  BY <1>1, <1>2 DEF SpaceInv
<1>5. ASSUME NEW v \in Loader, v # w PROVE LoadSpaced(v)' /\ ~Busy(v)'
  BY <1>1, <1>2, <1>5 DEF LoadSpaced, Busy
<1>6. Busy(w)' => started'[w] <= now' /\ now' <= started'[w] + Timeout
  BY <1>1, <1>2 DEF LoadSpaced
<1>7. LoadSpaced(w)'
  <2>1. CASE ScanOrgCache(w)
    <3>1. pc'[w] = "list" /\ buffer'[w] = {}
      BY <2>1 DEF ScanOrgCache, Goto, TypeInv, TypeOK, BufferInMap
    <3>2. ASSUME NEW a \in Account, map'[w][a] = None, lookedUpAt[a] # None PROVE Old(a)
      <4>1. map'[w][a] = IF rows[a].ttl > started[w] THEN rows[a].meta ELSE None
        BY <2>1 DEF ScanOrgCache, TypeInv, TypeOK
      <4>2. rows[a].ttl > started[w] => rows[a].meta # None
        BY ValueAssumption DEF TypeInv, TypeOK, Row, NoRow, Value
      <4>3. rows[a].ttl <= started[w] /\ started[w] <= now
        BY <1>1, <1>2, <3>2, <4>1, <4>2, SpaceTypes DEF LoadSpaced
      <4>4. Written(a) => Old(a)
        BY <3>2, <4>3, SpaceTypes DEF Written, Old
      <4> QED BY <1>4, <3>2, <4>4
    <3> QED BY <1>1, <1>3, <1>6, <3>1, <3>2 DEF LoadSpaced
  <2>2. CASE ListAccounts(w)
    <3>1. /\ pc[w] = "list" /\ pc'[w] = "enrich"
          /\ \A a \in misses'[w] : a \in Account /\ map[w][a] = None
      BY <2>2 DEF ListAccounts, Goto, TypeInv, TypeOK
    <3>2. \A a \in misses'[w] : a \in Account /\ (lookedUpAt[a] # None => Old(a))
      BY <1>2, <3>1 DEF LoadSpaced
    <3>3. buffer'[w] = {}
      BY <1>1, <1>2, <3>1 DEF LoadSpaced
    <3> QED BY <1>1, <1>3, <1>6, <3>1, <3>2, <3>3 DEF LoadSpaced
  <2>3. CASE Enrich(w)
    <3>1. pc[w] = "enrich" /\ pc'[w] = "lookup" /\ ttl'[w] = now + CacheTTL /\ misses' = misses
      BY <2>3 DEF Enrich, Goto, TypeInv, TypeOK
    <3>2. buffer'[w] = {} /\ \A a \in misses[w] : lookedUpAt[a] # None => Old(a)
      BY <1>1, <1>2, <3>1 DEF LoadSpaced
    <3>3. started'[w] + CacheTTL <= ttl'[w]
      BY <1>1, <1>2, <3>1, SpaceTypes DEF LoadSpaced
    <3>4. misses[w] \subseteq Account
      BY DEF TypeInv, TypeOK
    <3> QED BY <1>1, <1>3, <1>6, <3>1, <3>2, <3>3, <3>4 DEF LoadSpaced
  <2> QED BY <2>1, <2>2, <2>3
<1> QED BY <1>1, <1>3, <1>4, <1>5, <1>7 DEF SpaceInv

LEMMA SpaceBegins ==
    ASSUME TypeInv, SpaceInv, NEW w \in Loader, Begin(w)
    PROVE  SpaceInv'
<1> SUFFICES ASSUME faults' = 0 PROVE SpaceInv'
  BY DEF SpaceInv
<1>1. faults \in Nat /\ now \in Nat /\ Timeout \in Nat
  BY SpaceTypes DEF TypeInv, TypeOK
<1>2. faults = 0 /\ \A v \in Loader : pc[v] = "idle"
  BY <1>1 DEF Begin, Fails, Busy
<1>3. /\ pc'[w] = "scan" /\ started'[w] = now
      /\ \A v \in Loader : v # w => pc'[v] = "idle"
      /\ UNCHANGED <<now, rows, lookedUpAt>>
  BY <1>2 DEF Begin, Goto, TypeInv, TypeOK
<1>4. \A v \in Loader : LoadSpaced(v)'
  BY <1>1, <1>3 DEF LoadSpaced, Busy
<1>5. \A a \in Account : lookedUpAt'[a] # None => Old(a)' \/ Written(a)'
  BY <1>2, <1>3 DEF SpaceInv, Old, Written
<1> QED BY <1>3, <1>4, <1>5 DEF SpaceInv, Busy

LEMMA SpaceLooksUp ==
    ASSUME TypeInv, SpaceInv, faults = 0,
           NEW w \in Loader, NEW a \in Account, FetchAccountTags(w, a)
    PROVE  SpaceInv'
<1>1. pc[w] = "lookup" /\ Busy(w) /\ LoadSpaced(w)
      /\ \A v \in Loader : v # w => pc[v] = "idle"
  BY OnlyOne DEF FetchAccountTags, LookUp, Busy
<1>2. /\ UNCHANGED <<now, rows, pc, started, ttl>>
      /\ misses'[w] \subseteq misses[w] /\ a \notin misses'[w]
      /\ buffer'[w] = buffer[w] \cup {a}
      /\ lookedUpAt'[a] = now
      /\ \A b \in Account : b # a => lookedUpAt'[b] = lookedUpAt[b]
  BY DEF FetchAccountTags, LookUp, TypeInv, TypeOK
<1>3. misses[w] \subseteq Account /\ buffer[w] \subseteq Account
  BY DEF TypeInv, TypeOK
<1>4. ASSUME NEW b \in Account, b # a
      PROVE  (Old(b)' <=> Old(b)) /\ (Written(b)' <=> Written(b))
  BY <1>2, <1>4 DEF Old, Written
<1>5. now + CacheTTL <= ttl[w] + Timeout
  BY <1>1, SpaceTypes DEF LoadSpaced
<1>6. LoadSpaced(w)'
  <2>1. \A b \in misses'[w] : lookedUpAt'[b] # None => Old(b)'
    BY <1>1, <1>2, <1>3, <1>4 DEF LoadSpaced
  <2>2. \A b \in buffer'[w] :
           lookedUpAt'[b] # None => lookedUpAt'[b] + CacheTTL <= ttl'[w] + Timeout
    BY <1>1, <1>2, <1>3, <1>5 DEF LoadSpaced
  <2> QED BY <1>1, <1>2, <2>1, <2>2 DEF LoadSpaced, Busy
<1>7. \A v \in Loader : v # w => LoadSpaced(v)'
  BY <1>1, <1>2 DEF LoadSpaced, Busy
<1>8. ASSUME NEW b \in Account, lookedUpAt'[b] # None
      PROVE  Old(b)' \/ Written(b)' \/ (pc'[w] = "lookup" /\ b \in buffer'[w])
  <2>1. CASE b = a
    BY <1>1, <1>2, <2>1
  <2>2. CASE b # a
    BY <1>1, <1>2, <1>4, <1>8, <2>2 DEF SpaceInv
  <2> QED BY <2>1, <2>2
<1> QED BY <1>1, <1>2, <1>6, <1>7, <1>8 DEF SpaceInv, Busy

LEMMA SpaceWrites ==
    ASSUME TypeInv, SpaceInv, faults = 0, NEW w \in Loader, Flush(w)
    PROVE  SpaceInv'
<1>1. pc[w] = "lookup" /\ Busy(w) /\ LoadSpaced(w)
      /\ \A v \in Loader : v # w => pc[v] = "idle"
  BY OnlyOne DEF Flush, Sends, Busy
<1>2. PICK sent \in SUBSET buffer[w] :
          Write(w, sent) /\ buffer' = [buffer EXCEPT ![w] = @ \ sent]
  BY DEF Flush
<1>3. /\ UNCHANGED <<now, pc, started, misses, ttl, lookedUpAt>>
      /\ buffer'[w] = buffer[w] \ sent
  BY <1>2 DEF Flush, TypeInv, TypeOK
<1>4. ASSUME NEW a \in Account, lookedUpAt[a] # None
      PROVE  Old(a)' \/ Written(a)' \/ (pc'[w] = "lookup" /\ a \in buffer'[w])
  <2>1. CASE a \in sent
    <3>1. rows'[a].ttl = ttl[w]
      BY <1>2, <2>1 DEF Write
    <3>2. lookedUpAt[a] + CacheTTL <= ttl[w] + Timeout
      BY <1>1, <1>4, <2>1 DEF LoadSpaced
    <3> QED BY <1>3, <3>1, <3>2 DEF Written
  <2>2. CASE a \notin sent
    <3>1. rows'[a] = rows[a]
      BY <1>2, <2>2 DEF Write
    <3>2. Old(a) \/ Written(a) \/ a \in buffer[w]
      BY <1>1, <1>4 DEF SpaceInv
    <3> QED BY <1>1, <1>3, <2>2, <3>1, <3>2 DEF Old, Written
  <2> QED BY <2>1, <2>2
<1>5. LoadSpaced(w)'
  <2>1. misses[w] \subseteq Account /\ \A a \in Account : Old(a)' <=> Old(a)
    BY <1>3 DEF Old, TypeInv, TypeOK
  <2> QED BY <1>1, <1>3, <2>1 DEF LoadSpaced, Busy
<1>6. \A v \in Loader : v # w => LoadSpaced(v)'
  BY <1>1, <1>3 DEF LoadSpaced, Busy
<1> QED BY <1>1, <1>3, <1>4, <1>5, <1>6 DEF SpaceInv, Busy

LEMMA SpaceEnriched ==
    ASSUME TypeInv, SpaceInv, faults = 0, NEW w \in Loader, Enriched(w)
    PROVE  SpaceInv'
<1>1. pc[w] = "lookup" /\ buffer[w] = {} /\ LoadSpaced(w)
      /\ \A v \in Loader : v # w => pc[v] = "idle"
  BY OnlyOne DEF Enriched, Busy
<1>2. /\ UNCHANGED <<now, rows, started, lookedUpAt>>
      /\ pc'[w] = "done" /\ \A v \in Loader : v # w => pc'[v] = "idle"
  BY <1>1 DEF Enriched, Goto, TypeInv, TypeOK
<1>3. \A a \in Account : lookedUpAt'[a] # None => Old(a)' \/ Written(a)'
  BY <1>1, <1>2 DEF SpaceInv, Old, Written
<1>4. \A v \in Loader : LoadSpaced(v)'
  BY <1>1, <1>2 DEF LoadSpaced, Busy
<1> QED BY <1>2, <1>3, <1>4 DEF SpaceInv, Busy

LEMMA SpaceReturns ==
    ASSUME TypeInv, SpaceInv, faults = 0, NEW w \in Loader, Return(w)
    PROVE  SpaceInv'
<1>1. pc[w] = "done" /\ \A v \in Loader : v # w => pc[v] = "idle"
  BY OnlyOne DEF Return, Busy
<1>2. UNCHANGED <<now, rows, lookedUpAt>> /\ \A v \in Loader : pc'[v] = "idle"
  BY <1>1 DEF Return, Gone, Goto, TypeInv, TypeOK
<1>3. \A a \in Account : lookedUpAt'[a] # None => Old(a)' \/ Written(a)'
  BY <1>1, <1>2 DEF SpaceInv, Old, Written
<1> QED BY <1>2, <1>3 DEF SpaceInv, LoadSpaced, Busy

LEMMA SpaceInvInit == Init => SpaceInv
  BY DEF Init, SpaceInv, LoadSpaced, Busy

\* After a failure nothing is claimed.
LEMMA SpaceFails ==
    ASSUME TypeInv, NEW kind, Fails(kind)
    PROVE  SpaceInv'
  BY DEF Fails, TypeInv, TypeOK, SpaceInv

LEMMA SpaceKept ==
    ASSUME faults' = faults, faults # 0
    PROVE  SpaceInv'
  BY DEF SpaceInv

LEMMA SpaceStays ==
    ASSUME TypeInv, TypeInv', SpaceInv, UNCHANGED <<now, faults, loads, lookedUpAt>>,
           \A a \in Account : rows'[a] = rows[a] \/ rows[a].ttl < now
    PROVE  SpaceInv'
<1>1. now <= now'
  BY DEF TypeInv, TypeOK
<1>2. UNCHANGED <<faults, loads, lookedUpAt>>
  OBVIOUS
<1>3. \A w \in Loader : Busy(w) => now' = now \/ (now < started[w] + Timeout /\ now' = now + 1)
  OBVIOUS
<1> QED BY <1>1, <1>2, <1>3, SpaceElapses

LEMMA SpaceInvNext == TypeInv /\ SpaceInv /\ [Next]_vars => SpaceInv'
<1> SUFFICES ASSUME TypeInv, SpaceInv, [Next]_vars PROVE SpaceInv'
  OBVIOUS
<1>0. TypeInv' /\ now \in Nat
  BY TypeInvNext DEF TypeInv, TypeOK
<1>1. CASE Tick
  BY <1>0, <1>1, SpaceElapses DEF Tick
<1>2. ASSUME NEW a \in Account, Edit(a) PROVE SpaceInv'
  BY <1>0, <1>2, SpaceStays DEF Edit
<1>3. ASSUME NEW a \in Account, Expire(a) PROVE SpaceInv'
  <2>1. \A b \in Account : rows'[b] = rows[b] \/ rows[b].ttl < now
    BY <1>3 DEF Expire, TypeInv, TypeOK
  <2> QED BY <1>0, <1>3, <2>1, SpaceStays DEF Expire
<1>4. ASSUME NEW w \in Loader, Load(w) PROVE SpaceInv'
  <2>1. CASE Begin(w)
    BY <2>1, SpaceBegins
  <2>2. CASE ScanOrgCache(w) \/ ListAccounts(w) \/ Enrich(w)
    BY <1>0, <2>2, SpaceAdvances
  <2>3. ASSUME NEW a \in Account, FetchAccountTags(w, a) PROVE SpaceInv'
    BY <2>3, SpaceLooksUp, SpaceKept DEF FetchAccountTags
  <2>4. ASSUME NEW a \in Account, FetchFails(w, a) PROVE SpaceInv'
    BY <2>4, SpaceFails DEF FetchFails
  <2>5. CASE Flush(w) \/ Enriched(w)
    BY <2>5, SpaceWrites, SpaceEnriched, SpaceKept DEF Flush, Enriched
  <2>6. CASE Return(w)
    BY <2>6, SpaceReturns, SpaceKept DEF Return
  <2>7. CASE WriteFails(w)
    BY <2>7, SpaceFails DEF WriteFails
  <2>8. CASE LoadFails(w)
    BY <2>8, SpaceFails DEF LoadFails
  <2> QED BY <1>4, <2>1, <2>2, <2>3, <2>4, <2>5, <2>6, <2>7, <2>8 DEF Load
<1>5. CASE UNCHANGED vars
  BY <1>0, <1>5, SpaceStays DEF vars
<1> QED BY <1>1, <1>2, <1>3, <1>4, <1>5 DEF Next

\* A load looks up only what it found missing.
LEMMA OnlyMissesAreLookedUp ==
    ASSUME TypeInv, [Next]_vars, NEW w \in Loader, NEW a \in buffer'[w] \ buffer[w]
    PROVE  pc[w] = "lookup" /\ a \in misses[w]
<1>1. ASSUME NEW v \in Loader, Gone(v) PROVE FALSE
  BY <1>1 DEF Gone, TypeInv, TypeOK
<1>2. ASSUME NEW v \in Loader, NEW b, NEW value, LookUp(v, b, value)
      PROVE  pc[w] = "lookup" /\ a \in misses[w]
  BY <1>2 DEF LookUp, TypeInv, TypeOK
<1>3. CASE buffer' = buffer
  BY <1>3
<1>5. ASSUME NEW v \in Loader, Flush(v) PROVE FALSE
  BY <1>5 DEF Flush, TypeInv, TypeOK
<1>4. ASSUME NEW v \in Loader, Load(v) PROVE pc[w] = "lookup" /\ a \in misses[w]
  BY <1>1, <1>2, <1>3, <1>4, <1>5 DEF Load, Begin, ScanOrgCache, ListAccounts, Enrich, Enriched,
     FetchAccountTags, FetchFails, WriteFails, LoadFails, Return
<1> QED BY <1>3, <1>4 DEF Next, Tick, Edit, Expire, loads, vars

\* Without failures and overlapping loads, an account's tags are looked up again only once
\* the life of its row, less one invocation, has passed.
THEOREM CacheLookupsAreSpaced == Spec => LookupsAreSpaced
<1> DEFINE Step ==
      \A a \in Account :
         ((\E w \in Loader : a \in buffer'[w] \ buffer[w]) /\ lookedUpAt[a] # None /\ faults = 0)
            => now + Timeout >= lookedUpAt[a] + CacheTTL
<1>1. TypeInv /\ SpaceInv /\ [Next]_vars => [Step]_vars
  <2> SUFFICES ASSUME TypeInv, SpaceInv, [Next]_vars, NEW a \in Account,
                      NEW w \in Loader, a \in buffer'[w] \ buffer[w],
                      lookedUpAt[a] # None, faults = 0
               PROVE  now + Timeout >= lookedUpAt[a] + CacheTTL
    OBVIOUS
  <2>1. pc[w] = "lookup" /\ a \in misses[w]
    BY OnlyMissesAreLookedUp
  <2>2. Old(a)
    BY <2>1 DEF SpaceInv, LoadSpaced
  <2> QED BY <2>2, SpaceTypes DEF Old
<1>2. LookupsAreSpaced <=> [][Step]_vars
  BY DEF LookupsAreSpaced
<1> HIDE DEF Step
<1> QED BY <1>1, <1>2, TypeInvInit, TypeInvNext, SpaceInvInit, SpaceInvNext, PTL DEF Spec
=============================================================================
