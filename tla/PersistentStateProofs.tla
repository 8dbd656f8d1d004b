------------------------- MODULE PersistentStateProofs -------------------------
(***************************************************************************)
(* Proofs about the state that outlives the process.  LinkKeyStore, for    *)
(* every set of headsets, every capacity of the database and any number of *)
(* pairings and profiles: the database holds one key per headset, a stored *)
(* key stays stored, and a headset whose key is known is not paired again. *)
(* DriverSwitch: the driver store keeps a package to fall back to, and a   *)
(* switch of the dongle's driver that reports success has succeeded.       *)
(***************************************************************************)
EXTENDS LinkKeyStore, DriverSwitch, Integers, SequenceTheorems, TLAPS

\* A list the database may hold.
Keyed(list) == list \in Seq(Entry) /\ OneEntryEach(list)

\* A put is only unsaved while the stack is up.
SavesInUse == saving => ready

\* What link_keys.txt is trusted with it has, unless a write was cut short;
\* the memory has it while the stack is up, and after a write cut short until
\* it is given up.
MemoryAgrees ==
    \A d \in trusted \ outdated :
       /\ d \notin cut => KeyOf(keyFile, d) = headset[d]
       /\ ready \/ d \in cut => KeyOf(entries, d) = headset[d]

MInv == SavesInUse /\ MemoryAgrees

\* From the seeding on, a profile's key that the headset still holds is in
\* the database.
SInv ==
    /\ pc \notin {"off", "idle", "init"} => ready
    /\ pc \notin {"off", "idle", "init", "seed"}
       /\ session.key # NoKey /\ session.key = headset[session.addr] =>
          KeyOf(entries, session.addr) = session.key

-----------------------------------------------------------------------------
(* The operations on the list of entries.                                  *)

\* The members of an entry.
LEMMA EntryParts ==
    ASSUME NEW list \in Seq(Entry)
    PROVE  /\ Len(list) \in Nat /\ DOMAIN list = 1 .. Len(list)
           /\ \A i \in DOMAIN list :
                 /\ list[i] \in Entry
                 /\ list[i].addr \in Devices /\ list[i].key \in Keys
<1>1. \A i \in 1 .. Len(list) : list[i] \in Entry
  BY ElementOfSeq
<1> QED
  BY <1>1, LenProperties DEF Entry

\* The only entry of an address is the one that is found.
LEMMA FindsOnly ==
    ASSUME NEW list, Keyed(list), NEW i \in DOMAIN list
    PROVE  /\ find_entry(list, list[i].addr) = i
           /\ KeyOf(list, list[i].addr) = list[i].key
<1> DEFINE d == list[i].addr
<1>1. IndicesOf(list, d) = {i}
  BY DEF IndicesOf, Keyed, OneEntryEach
<1>2. i \in Nat /\ i # 0
  BY EntryParts DEF Keyed
<1>3. find_entry(list, d) = i
  BY <1>1, <1>2 DEF find_entry
<1> QED
  BY <1>2, <1>3 DEF KeyOf

\* An address without an entry has no key.
LEMMA FindsNone ==
    ASSUME NEW list, NEW d, \A i \in DOMAIN list : list[i].addr # d
    PROVE  find_entry(list, d) = 0 /\ KeyOf(list, d) = NoKey
BY DEF find_entry, IndicesOf, KeyOf

\* What a search can yield.
LEMMA FindCases ==
    ASSUME NEW list, Keyed(list), NEW d
    PROVE  \/ /\ find_entry(list, d) = 0 /\ KeyOf(list, d) = NoKey
              /\ \A i \in DOMAIN list : list[i].addr # d
           \/ /\ find_entry(list, d) \in DOMAIN list
              /\ find_entry(list, d) # 0
              /\ list[find_entry(list, d)].addr = d
              /\ KeyOf(list, d) = list[find_entry(list, d)].key
<1>1. CASE \A i \in DOMAIN list : list[i].addr # d
  BY <1>1, FindsNone
<1>2. CASE \E i \in DOMAIN list : list[i].addr = d
  <2>1. PICK i \in DOMAIN list : list[i].addr = d
    BY <1>2
  <2>2. find_entry(list, d) = i /\ KeyOf(list, d) = list[i].key
    BY <2>1, FindsOnly
  <2>3. i # 0
    BY EntryParts DEF Keyed
  <2> QED
    BY <2>1, <2>2, <2>3
<1> QED
  BY <1>1, <1>2

\* A key that is found is a key.
LEMMA FoundKey ==
    ASSUME NEW list, Keyed(list), NEW d
    PROVE  KeyOf(list, d) \in Keys
<1>1. NoKey \in Keys
  BY KeyStoreAssumption DEF NoKey, Keys
<1> QED
  BY <1>1, FindCases, EntryParts DEF Keyed

\* Two lists that agree on the entries of an address agree on its key.
LEMMA SameKey ==
    ASSUME NEW a, Keyed(a), NEW b, Keyed(b), NEW d,
           \A i \in DOMAIN a : a[i].addr = d =>
              \E j \in DOMAIN b : b[j] = a[i],
           \A j \in DOMAIN b : b[j].addr = d =>
              \E i \in DOMAIN a : a[i] = b[j]
    PROVE  KeyOf(a, d) = KeyOf(b, d)
<1>1. CASE \A i \in DOMAIN a : a[i].addr # d
  <2>1. \A j \in DOMAIN b : b[j].addr # d
    BY <1>1
  <2> QED
    BY <1>1, <2>1, FindsNone
<1>2. CASE \E i \in DOMAIN a : a[i].addr = d
  <2>1. PICK i \in DOMAIN a : a[i].addr = d
    BY <1>2
  <2>2. PICK j \in DOMAIN b : b[j] = a[i]
    BY <2>1
  <2>3. KeyOf(a, a[i].addr) = a[i].key /\ KeyOf(b, b[j].addr) = b[j].key
    BY FindsOnly
  <2> QED
    BY <2>1, <2>2, <2>3
<1> QED
  BY <1>1, <1>2

\* load_from_file() loads every line of a file that save_to_file() wrote.
LEMMA LoadsAll ==
    ASSUME NEW list, Keyed(list)
    PROVE  load_from_file(list) = list
<1>1. Len(list) \in Nat /\ Len(list) <= MAX_LINK_KEYS /\ MAX_LINK_KEYS \in Nat
  BY KeyStoreAssumption, EntryParts DEF Keyed, OneEntryEach
<1>2. (IF Len(list) < MAX_LINK_KEYS THEN Len(list) ELSE MAX_LINK_KEYS) = Len(list)
  BY <1>1
<1>3. SubSeq(list, 1, Len(list)) = list
  BY SubSeqFull DEF Keyed
<1> QED
  BY <1>2, <1>3 DEF load_from_file

\* Removing an entry keeps the others.
LEMMA RemovedAt ==
    ASSUME NEW list \in Seq(Entry), NEW i \in DOMAIN list
    PROVE  /\ RemoveAt(list, i) \in Seq(Entry)
           /\ Len(RemoveAt(list, i)) = Len(list) - 1
           /\ \A j \in 1 .. Len(list) - 1 :
                 RemoveAt(list, i)[j] = IF j < i THEN list[j] ELSE list[j + 1]
<1> DEFINE front == SubSeq(list, 1, i - 1)
           back == SubSeq(list, i + 1, Len(list))
           n == Len(list)
<1>1. n \in Nat /\ i \in 1 .. n /\ \A j \in 1 .. n : list[j] \in Entry
  BY EntryParts
<1>2. \A j \in 1 .. i - 1 : list[j] \in Entry
  BY <1>1
<1>3. \A j \in i + 1 .. n : list[j] \in Entry
  BY <1>1
<1>4. /\ front \in Seq(Entry)
      /\ Len(front) = IF 1 <= i - 1 THEN (i - 1) - 1 + 1 ELSE 0
      /\ \A j \in 1 .. (i - 1) - 1 + 1 : front[j] = list[1 + j - 1]
  <2>1. 1 \in Int /\ i - 1 \in Int
    BY <1>1
  <2> QED
    BY <1>2, <2>1, SubSeqProperties
<1>5. /\ back \in Seq(Entry)
      /\ Len(back) = IF i + 1 <= n THEN n - (i + 1) + 1 ELSE 0
      /\ \A j \in 1 .. n - (i + 1) + 1 : back[j] = list[(i + 1) + j - 1]
  <2>1. i + 1 \in Int /\ n \in Int
    BY <1>1
  <2> QED
    BY <1>3, <2>1, SubSeqProperties
<1>6. /\ RemoveAt(list, i) = front \o back
      /\ front \o back \in Seq(Entry)
      /\ Len(front \o back) = Len(front) + Len(back)
      /\ \A j \in 1 .. Len(front) + Len(back) : (front \o back)[j] =
            IF j <= Len(front) THEN front[j] ELSE back[j - Len(front)]
  BY <1>4, <1>5, ConcatProperties DEF RemoveAt
<1> HIDE DEF n, front, back
<1>7. Len(front) = i - 1 /\ Len(back) = n - i
  BY <1>1, <1>4, <1>5
<1>8. Len(front) + Len(back) = n - 1
  BY <1>1, <1>7
<1>9. ASSUME NEW j \in 1 .. n - 1
      PROVE  (front \o back)[j] = IF j < i THEN list[j] ELSE list[j + 1]
  <2>1. (front \o back)[j] =
           IF j <= i - 1 THEN front[j] ELSE back[j - (i - 1)]
    BY <1>6, <1>7, <1>8
  <2>2. CASE j < i
    <3>1. j <= i - 1 /\ j \in 1 .. (i - 1) - 1 + 1 /\ 1 + j - 1 = j
      BY <1>1, <2>2
    <3>2. front[j] = list[1 + j - 1]
      BY <1>4, <3>1
    <3> QED
      BY <2>1, <2>2, <3>1, <3>2
  <2>3. CASE ~(j < i)
    <3>1. /\ ~(j <= i - 1) /\ j - (i - 1) \in 1 .. n - (i + 1) + 1
          /\ (i + 1) + (j - (i - 1)) - 1 = j + 1
      BY <1>1, <2>3
    <3>2. back[j - (i - 1)] = list[(i + 1) + (j - (i - 1)) - 1]
      BY <1>5, <3>1
    <3> QED
      BY <2>1, <2>3, <3>1, <3>2
  <2> QED
    BY <2>2, <2>3
<1> QED
  BY <1>6, <1>8, <1>9 DEF n

\* Overwriting a key in place changes that key only.
LEMMA KeySetAt ==
    ASSUME NEW list \in Seq(Entry), NEW i, NEW k \in Keys
    PROVE  LET new == [list EXCEPT ![i].key = k]
           IN  /\ new \in Seq(Entry)
               /\ Len(new) = Len(list) /\ DOMAIN new = DOMAIN list
               /\ \A j \in DOMAIN list :
                     new[j] = IF j = i THEN [addr |-> list[j].addr, key |-> k]
                              ELSE list[j]
<1> DEFINE new == [list EXCEPT ![i].key = k]
           n == Len(list)
<1>1. /\ n \in Nat /\ DOMAIN list = 1 .. n /\ list \in [1 .. n -> Entry]
      /\ \A j \in 1 .. n : list[j] \in Entry
  BY EntryParts, LenProperties
<1>2. \A e \in Entry : /\ [e EXCEPT !.key = k] = [addr |-> e.addr, key |-> k]
                       /\ [e EXCEPT !.key = k] \in Entry
  BY DEF Entry
<1>3. new = [j \in 1 .. n |-> IF j = i THEN [list[j] EXCEPT !.key = k] ELSE list[j]]
  BY <1>1
<1>4. \A j \in 1 .. n : new[j] = IF j = i THEN [addr |-> list[j].addr, key |-> k]
                                 ELSE list[j]
  BY <1>1, <1>2, <1>3
<1>5. new \in [1 .. n -> Entry]
  BY <1>1, <1>2, <1>3
<1>6. new \in Seq(Entry) /\ DOMAIN new = 1 .. n
  BY <1>1, <1>5, SeqDef
<1>7. Len(new) = n
  BY <1>1, <1>6, LenProperties
<1> QED
  BY <1>1, <1>4, <1>6, <1>7

\* A list without its oldest entry.
LEMMA WithoutOldest ==
    ASSUME NEW list, Keyed(list), list # <<>>
    PROVE  /\ Keyed(Tail(list)) /\ Len(Tail(list)) = Len(list) - 1
           /\ \A j \in DOMAIN Tail(list) : Tail(list)[j] = list[j + 1]
<1>1. /\ Tail(list) \in Seq(Entry) /\ Len(Tail(list)) = Len(list) - 1
      /\ \A j \in 1 .. Len(Tail(list)) : Tail(list)[j] = list[j + 1]
  BY HeadTailProperties DEF Keyed
<1>2. /\ Len(list) \in Nat /\ DOMAIN list = 1 .. Len(list)
      /\ DOMAIN Tail(list) = 1 .. Len(Tail(list)) /\ MAX_LINK_KEYS \in Nat
  BY <1>1, EntryParts, KeyStoreAssumption DEF Keyed
<1>3. \A j \in DOMAIN Tail(list) : j + 1 \in DOMAIN list /\ j \in Int
  BY <1>1, <1>2
<1>4. Len(Tail(list)) <= MAX_LINK_KEYS
  BY <1>1, <1>2 DEF Keyed, OneEntryEach
<1>5. ASSUME NEW j \in DOMAIN Tail(list), NEW l \in DOMAIN Tail(list),
             Tail(list)[j].addr = Tail(list)[l].addr
      PROVE  j = l
  <2>1. list[j + 1].addr = list[l + 1].addr
    BY <1>1, <1>2, <1>5
  <2>2. j + 1 = l + 1
    BY <1>3, <2>1 DEF Keyed, OneEntryEach
  <2> QED
    BY <1>3, <2>2
<1> QED
  BY <1>1, <1>2, <1>4, <1>5 DEF Keyed, OneEntryEach

\* The beginning of a list keeps the keys of the entries it has.
LEMMA PrefixKeyed ==
    ASSUME NEW list, Keyed(list), NEW n \in 0 .. Len(list) - 1
    PROVE  /\ Keyed(SubSeq(list, 1, n))
           /\ \A d : Has(SubSeq(list, 1, n), d) =>
                 KeyOf(SubSeq(list, 1, n), d) = KeyOf(list, d)
<1> DEFINE new == SubSeq(list, 1, n)
<1>1. /\ Len(list) \in Nat /\ DOMAIN list = 1 .. Len(list)
      /\ Len(list) <= MAX_LINK_KEYS /\ MAX_LINK_KEYS \in Nat
      /\ n \in Nat /\ \A i \in 1 .. n : list[i] \in Entry
  BY EntryParts, KeyStoreAssumption DEF Keyed, OneEntryEach
<1>2. /\ new \in Seq(Entry) /\ Len(new) = IF 1 <= n THEN n - 1 + 1 ELSE 0
      /\ \A i \in 1 .. n - 1 + 1 : new[i] = list[1 + i - 1]
  <2>1. 1 \in Int /\ n \in Int
    BY <1>1
  <2> QED
    BY <1>1, <2>1, SubSeqProperties
<1> HIDE DEF new
<1>3. Len(new) = n
  BY <1>1, <1>2
<1>4. DOMAIN new = 1 .. n /\ \A i \in 1 .. n : i \in DOMAIN list
  BY <1>1, <1>2, <1>3, EntryParts
<1>5. \A i \in 1 .. n : new[i] = list[i]
  BY <1>1, <1>2
<1>6. Keyed(new)
  BY <1>1, <1>2, <1>3, <1>4, <1>5 DEF Keyed, OneEntryEach
<1>7. ASSUME NEW d, Has(new, d) PROVE KeyOf(new, d) = KeyOf(list, d)
  <2>1. PICK i \in DOMAIN new : new[i].addr = d /\ KeyOf(new, d) = new[i].key
    BY <1>6, <1>7, FindCases DEF Has
  <2>2. i \in DOMAIN list /\ list[i] = new[i]
    BY <1>4, <1>5, <2>1
  <2>3. KeyOf(list, list[i].addr) = list[i].key
    BY <2>2, FindsOnly
  <2> QED
    BY <2>1, <2>2, <2>3
<1> QED
  BY <1>6, <1>7 DEF new

\* Removing an entry from the database keeps the keys of the others.
LEMMA RemovedKeyed ==
    ASSUME NEW list, Keyed(list), NEW i \in DOMAIN list
    PROVE  /\ Keyed(RemoveAt(list, i))
           /\ \A d : d # list[i].addr =>
                 KeyOf(RemoveAt(list, i), d) = KeyOf(list, d)
<1> DEFINE new == RemoveAt(list, i)
           n == Len(list)
           at(j) == IF j < i THEN j ELSE j + 1
<1>1. /\ n \in Nat /\ DOMAIN list = 1 .. n /\ i \in 1 .. n
      /\ n <= MAX_LINK_KEYS /\ MAX_LINK_KEYS \in Nat
  BY EntryParts, KeyStoreAssumption DEF Keyed, OneEntryEach
<1>2. /\ new \in Seq(Entry) /\ Len(new) = n - 1
      /\ \A j \in 1 .. n - 1 : new[j] = IF j < i THEN list[j] ELSE list[j + 1]
  BY RemovedAt DEF Keyed
<1>3. DOMAIN new = 1 .. n - 1
  BY <1>2, EntryParts
<1> HIDE DEF new, n
<1>4. \A j \in DOMAIN new : /\ at(j) \in DOMAIN list /\ at(j) # i
                            /\ new[j] = list[at(j)] /\ j \in Int
  BY <1>1, <1>2, <1>3
<1>5. Len(new) <= MAX_LINK_KEYS
  BY <1>1, <1>2
<1>6. ASSUME NEW j \in DOMAIN new, NEW l \in DOMAIN new, new[j].addr = new[l].addr
      PROVE  j = l
  <2>1. at(j) = at(l)
    BY <1>4, <1>6 DEF Keyed, OneEntryEach
  <2> QED
    BY <1>1, <1>3, <2>1
<1>7. Keyed(new)
  BY <1>2, <1>5, <1>6 DEF Keyed, OneEntryEach
<1>8. ASSUME NEW d, d # list[i].addr PROVE KeyOf(new, d) = KeyOf(list, d)
  <2>1. \A j \in DOMAIN new : \E l \in DOMAIN list : list[l] = new[j]
    BY <1>4
  <2>2. ASSUME NEW l \in DOMAIN list, list[l].addr = d
        PROVE  \E j \in DOMAIN new : new[j] = list[l]
    <3>1. l # i
      BY <1>8, <2>2
    <3>2. CASE l < i
      <4>1. l \in DOMAIN new /\ at(l) = l
        BY <1>1, <1>3, <3>2
      <4> QED
        BY <1>4, <4>1
    <3>3. CASE ~(l < i)
      <4>1. l - 1 \in DOMAIN new /\ at(l - 1) = l
        BY <1>1, <1>3, <3>1, <3>3
      <4> QED
        BY <1>4, <4>1
    <3> QED
      BY <3>2, <3>3
  <2> QED
    BY <1>7, <2>1, <2>2, SameKey
<1> QED
  BY <1>7, <1>8 DEF new

\* A put keeps the list fit for the database, makes the key the one that is
\* found, and loses no other key than that of the oldest entry.
LEMMA PutKeyed ==
    ASSUME NEW list, Keyed(list), NEW d \in Devices, NEW k \in Keys
    PROVE  LET new == db_put(list, d, k)
               evicted == IF find_entry(list, d) = 0
                             /\ Len(list) >= MAX_LINK_KEYS
                          THEN {list[1].addr} ELSE {}
           IN  /\ Keyed(new)
               /\ KeyOf(new, d) = k
               /\ \A e : e # d /\ e \notin evicted =>
                     KeyOf(new, e) = KeyOf(list, e)
<1> DEFINE new == db_put(list, d, k)
           evicted == IF find_entry(list, d) = 0 /\ Len(list) >= MAX_LINK_KEYS
                      THEN {list[1].addr} ELSE {}
           entry == [addr |-> d, key |-> k]
<1>1. /\ Len(list) \in Nat /\ DOMAIN list = 1 .. Len(list)
      /\ Len(list) <= MAX_LINK_KEYS /\ MAX_LINK_KEYS \in Nat \ {0}
      /\ list \in Seq(Entry) /\ entry \in Entry
  BY EntryParts, KeyStoreAssumption DEF Keyed, OneEntryEach, Entry
<1>2. CASE find_entry(list, d) # 0
  <2> DEFINE i == find_entry(list, d)
  <2>1. i \in DOMAIN list /\ list[i].addr = d
    BY <1>2, FindCases
  <2>2. new = [list EXCEPT ![i].key = k]
    BY <1>2 DEF db_put
  <2> HIDE DEF i
  <2>3. /\ new \in Seq(Entry) /\ Len(new) = Len(list) /\ DOMAIN new = DOMAIN list
        /\ \A j \in DOMAIN list :
              new[j] = IF j = i THEN [addr |-> list[j].addr, key |-> k] ELSE list[j]
    <3> DEFINE set == [list EXCEPT ![i].key = k]
    <3>1. /\ set \in Seq(Entry) /\ Len(set) = Len(list) /\ DOMAIN set = DOMAIN list
          /\ \A j \in DOMAIN list :
                set[j] = IF j = i THEN [addr |-> list[j].addr, key |-> k]
                         ELSE list[j]
      BY <1>1, KeySetAt
    <3>2. new = set
      BY <2>2
    <3> HIDE DEF set, new
    <3> QED
      BY <3>1, <3>2
  <2> HIDE DEF new
  <2>4. \A j \in DOMAIN list : new[j].addr = list[j].addr
    BY <2>3
  <2>5. Keyed(new)
    BY <2>3, <2>4 DEF Keyed, OneEntryEach
  <2>6. KeyOf(new, d) = k
    <3>1. new[i].addr = d /\ new[i].key = k
      BY <2>1, <2>3
    <3> QED
      BY <2>1, <2>3, <2>5, <3>1, FindsOnly
  <2>7. ASSUME NEW e, e # d PROVE KeyOf(new, e) = KeyOf(list, e)
    <3>1. \A j \in DOMAIN list : list[j].addr = e => new[j] = list[j]
      BY <2>1, <2>3, <2>7
    <3>2. \A j \in DOMAIN new : new[j].addr = e => new[j] = list[j]
      BY <2>3, <2>4, <3>1
    <3> QED
      BY <2>3, <2>5, <3>1, <3>2, SameKey
  <2> QED
    BY <2>5, <2>6, <2>7 DEF new
<1>3. CASE find_entry(list, d) = 0
  <2> DEFINE kept == IF Len(list) < MAX_LINK_KEYS THEN list ELSE Tail(list)
  <2>1. \A j \in DOMAIN list : list[j].addr # d
    BY <1>3, FindCases
  <2>2. new = Append(kept, entry)
    BY <1>3 DEF db_put
  <2>3. /\ Keyed(kept) /\ Len(kept) < MAX_LINK_KEYS
        /\ \A j \in DOMAIN kept : \E l \in DOMAIN list : list[l] = kept[j]
        /\ \A l \in DOMAIN list : list[l].addr \notin evicted =>
              \E j \in DOMAIN kept : kept[j] = list[l]
    <3>1. CASE Len(list) < MAX_LINK_KEYS
      BY <1>1, <3>1
    <3>2. CASE ~(Len(list) < MAX_LINK_KEYS)
      <4>1. list # <<>> /\ evicted = {list[1].addr} /\ kept = Tail(list)
        BY <1>1, <1>3, <3>2, EmptySeq
      <4>2. /\ Keyed(kept) /\ Len(kept) = Len(list) - 1
            /\ \A j \in DOMAIN kept : kept[j] = list[j + 1]
        BY <4>1, WithoutOldest
      <4>3. DOMAIN kept = 1 .. Len(list) - 1
        BY <4>2, EntryParts DEF Keyed
      <4> HIDE DEF kept
      <4>4. \A j \in DOMAIN kept : \E l \in DOMAIN list : list[l] = kept[j]
        BY <1>1, <4>2, <4>3
      <4>5. ASSUME NEW l \in DOMAIN list, list[l].addr \notin evicted
            PROVE  \E j \in DOMAIN kept : kept[j] = list[l]
        <5>1. l # 1
          BY <4>1, <4>5
        <5>2. l - 1 \in DOMAIN kept /\ (l - 1) + 1 = l
          BY <1>1, <4>3, <5>1
        <5> QED
          BY <4>2, <5>2
      <4> QED
        BY <1>1, <4>2, <4>4, <4>5
    <3> QED
      BY <3>1, <3>2
  <2> HIDE DEF kept, entry, evicted
  <2>4. kept \in Seq(Entry) /\ Len(kept) \in Nat /\ DOMAIN kept = 1 .. Len(kept)
    BY <2>3, EntryParts DEF Keyed
  <2>5. /\ new \in Seq(Entry) /\ Len(new) = Len(kept) + 1
        /\ \A j \in 1 .. Len(kept) : new[j] = kept[j]
        /\ new[Len(kept) + 1] = entry
    BY <1>1, <2>2, <2>4, AppendProperties
  <2>6. DOMAIN new = 1 .. Len(kept) + 1
    BY <2>5, EntryParts
  <2> HIDE DEF new
  <2>7. \A j \in DOMAIN new : j \in DOMAIN kept \/ j = Len(kept) + 1
    BY <2>4, <2>6
  <2>8. entry.addr = d /\ entry.key = k
    BY DEF entry
  <2>9. \A j \in DOMAIN kept : kept[j].addr # d /\ new[j] = kept[j]
    BY <2>1, <2>3, <2>4, <2>5
  <2>10. Keyed(new)
    <3>1. Len(new) <= MAX_LINK_KEYS
      BY <1>1, <2>3, <2>4, <2>5
    <3>2. ASSUME NEW j \in DOMAIN new, NEW l \in DOMAIN new,
                 new[j].addr = new[l].addr
          PROVE  j = l
      <4>1. CASE j \in DOMAIN kept /\ l \in DOMAIN kept
        BY <2>3, <2>9, <3>2, <4>1 DEF Keyed, OneEntryEach
      <4>2. CASE j = Len(kept) + 1 \/ l = Len(kept) + 1
        BY <2>5, <2>7, <2>8, <2>9, <3>2, <4>2
      <4> QED
        BY <2>7, <4>1, <4>2
    <3> QED
      BY <2>5, <3>1, <3>2 DEF Keyed, OneEntryEach
  <2>11. KeyOf(new, d) = k
    <3>1. Len(kept) + 1 \in DOMAIN new
      BY <2>4, <2>6
    <3> QED
      BY <2>5, <2>8, <2>10, <3>1, FindsOnly
  <2>12. ASSUME NEW e, e # d, e \notin evicted PROVE KeyOf(new, e) = KeyOf(list, e)
    <3>1. ASSUME NEW j \in DOMAIN new, new[j].addr = e
          PROVE  \E l \in DOMAIN list : list[l] = new[j]
      BY <2>3, <2>5, <2>7, <2>8, <2>9, <2>12, <3>1
    <3>2. ASSUME NEW l \in DOMAIN list, list[l].addr = e
          PROVE  \E j \in DOMAIN new : new[j] = list[l]
      <4>1. PICK j \in DOMAIN kept : kept[j] = list[l]
        BY <2>3, <2>12, <3>2
      <4>2. j \in DOMAIN new /\ new[j] = list[l]
        BY <2>4, <2>6, <2>9, <4>1
      <4> QED
        BY <4>2
    <3> QED
      BY <2>10, <3>1, <3>2, SameKey
  <2> QED
    BY <2>10, <2>11, <2>12 DEF new, evicted
<1> QED
  BY <1>2, <1>3


-----------------------------------------------------------------------------
(* The type invariant, and one entry for each headset.                     *)

\* Keys, and what reading an empty or a whole profiles.json yields.
LEMMA Reads ==
    /\ NoKey \in Keys /\ Keys \subseteq Nat
    /\ \A k \in 1 .. MaxKey : k \in Keys
    /\ <<>> \in Seq(Entry) /\ Keyed(<<>>)
    /\ LoadProfiles(<<>>) = <<>> /\ \A list : LoadProfiles(<<list>>) = list
<1>1. <<>> \in Seq(Entry) /\ Len(<<>>) = 0 /\ DOMAIN <<>> = {}
  OBVIOUS
<1>2. OneEntryEach(<<>>)
  BY <1>1, KeyStoreAssumption DEF OneEntryEach
<1>3. \A list : <<list>> # <<>> /\ Head(<<list>>) = list
  OBVIOUS
<1> QED
  BY <1>1, <1>2, <1>3, KeyStoreAssumption DEF Keys, NoKey, Keyed, LoadProfiles

\* The invariants hold before any program was started.
LEMMA InitAll == Init => OneKeyPerHeadset /\ MInv /\ SInv
<1> SUFFICES ASSUME Init PROVE OneKeyPerHeadset /\ MInv /\ SInv
  OBVIOUS
<1>1. /\ session \in Entry /\ headset \in [Devices -> Keys]
      /\ nextKey \in 1 .. MaxKey + 1
  BY Reads, KeyStoreAssumption DEF Init, Entry
<1>2. ready \in BOOLEAN /\ saving \in BOOLEAN /\ uiSaving \in BOOLEAN
  BY DEF Init
<1>3. TypeOK
  BY <1>1, <1>2, Reads DEF Init, TypeOK, PCs
<1>4. OneEntryEach(entries) /\ OneEntryEach(keyFile)
  BY Reads DEF Init, Keyed
<1> QED
  BY <1>3, <1>4 DEF Init, OneKeyPerHeadset, MInv, SavesInUse,
     MemoryAgrees, SInv

\* Every step leaves the types alone and one entry for each headset in the
\* database and in link_keys.txt.
LEMMA NextOneKey ==
    ASSUME OneKeyPerHeadset, [Next]_vars
    PROVE  OneKeyPerHeadset'
<1> USE DEF appVars, dbVars, profileVars, worldVars, historyVars
<1>a. /\ TypeOK /\ Keyed(entries) /\ Keyed(keyFile)
      /\ OneEntryEach(entries) /\ OneEntryEach(keyFile)
  BY DEF OneKeyPerHeadset, Keyed, TypeOK
<1>b. ASSUME TypeOK', Keyed(entries)', Keyed(keyFile)' PROVE OneKeyPerHeadset'
  BY <1>b DEF OneKeyPerHeadset, Keyed
<1>c. /\ session.addr \in Devices /\ session.key \in Keys
      /\ \A d \in Devices : headset[d] \in Keys
  BY <1>a DEF TypeOK, Entry
<1>1. CASE SaveRenames
  <2>1. saving' \in BOOLEAN
    BY <1>1 DEF SaveRenames
  <2>2. TypeOK'
    BY <1>1, <1>a, <2>1 DEF SaveRenames, TypeOK
  <2> QED
    BY <1>1, <1>a, <1>b, <2>2 DEF SaveRenames
<1>2. CASE SaveFails
  <2>1. saving' \in BOOLEAN
    BY <1>2 DEF SaveFails
  <2>2. TypeOK'
    BY <1>2, <1>a, <2>1 DEF SaveFails, TypeOK, PCs
  <2> QED
    BY <1>2, <1>a, <1>b, <2>2 DEF SaveFails
<1>25. CASE SaveCutShort
  <2>1. PICK n \in 0 .. Len(entries) - 1 : keyFile' = SubSeq(entries, 1, n)
    BY <1>25 DEF SaveCutShort
  <2>2. Keyed(keyFile') /\ saving' \in BOOLEAN /\ cut' \subseteq Devices
    BY <1>25, <1>a, <2>1, PrefixKeyed DEF SaveCutShort
  <2>3. TypeOK'
    BY <1>25, <1>a, <2>2 DEF SaveCutShort, TypeOK, Keyed
  <2> QED
    BY <1>25, <1>a, <1>b, <2>2, <2>3 DEF SaveCutShort
<1>3. CASE ConnectWithKey
  <2>1. TypeOK'
    BY <1>3, <1>a DEF ConnectWithKey, AfterConnect, TypeOK, PCs
  <2> QED
    BY <1>3, <1>a, <1>b, <2>1 DEF ConnectWithKey
<1>4. CASE LinkLost
  <2>1. TypeOK'
    BY <1>4, <1>a DEF LinkLost, TypeOK, PCs
  <2> QED
    BY <1>4, <1>a, <1>b, <2>1 DEF LinkLost
<1>5. CASE SessionAborts
  <2>1. TypeOK'
    BY <1>5, <1>a DEF SessionAborts, TypeOK, PCs
  <2> QED
    BY <1>5, <1>a, <1>b, <2>1 DEF SessionAborts
<1>6. CASE SessionEnds
  <2>1. TypeOK'
    BY <1>6, <1>a DEF SessionEnds, TypeOK, PCs
  <2> QED
    BY <1>6, <1>a, <1>b, <2>1 DEF SessionEnds
<1>7. CASE ResetStack
  <2>1. ready' \in BOOLEAN
    BY <1>7 DEF ResetStack
  <2>2. TypeOK'
    BY <1>7, <1>a, <2>1 DEF ResetStack, TypeOK, PCs
  <2> QED
    BY <1>7, <1>a, <1>b, <2>2 DEF ResetStack
<1>8. CASE StartSession
  <2>1. session' \in Entry
    <3>1. \A i \in DOMAIN uiProfiles : uiProfiles[i] \in Entry
      BY <1>a, EntryParts DEF TypeOK
    <3>2. \A d \in Devices : [addr |-> d, key |-> NoKey] \in Entry
      BY Reads DEF Entry
    <3> QED
      BY <1>8, <3>1, <3>2 DEF StartSession
  <2>2. TypeOK'
    BY <1>8, <1>a, <2>1 DEF StartSession, TypeOK, PCs
  <2> QED
    BY <1>8, <1>a, <1>b, <2>2 DEF StartSession
<1>9. CASE InitStack
  <2>1. entries' = entries \/ entries' = keyFile
    BY <1>9, <1>a, LoadsAll DEF InitStack
  <2>2. /\ ready' \in BOOLEAN /\ Keyed(entries')
        /\ trusted' \subseteq Devices /\ cut' \subseteq Devices
    BY <1>9, <1>a, <2>1 DEF InitStack, CutIsLost, TypeOK
  <2>3. TypeOK'
    BY <1>9, <1>a, <2>2 DEF InitStack, TypeOK, PCs, Keyed
  <2> QED
    BY <1>9, <1>a, <1>b, <2>2, <2>3 DEF InitStack
<1>10. CASE Seed
  <2>1. saving' \in BOOLEAN /\ Keyed(entries')
    <3>1. Keyed(db_put(entries, session.addr, session.key))
      BY <1>a, <1>c, PutKeyed
    <3>2. \/ entries' = entries /\ saving' = saving
          \/ entries' = db_put(entries, session.addr, session.key) /\ saving' = TRUE
      BY <1>10 DEF Seed, PutKey
    <3> QED
      BY <1>a, <3>1, <3>2 DEF TypeOK
  <2>2. trusted' \subseteq Devices /\ outdated' \subseteq Devices
    BY <1>10, <1>a, <1>c DEF Seed, TypeOK
  <2>3. TypeOK'
    BY <1>10, <1>a, <2>1, <2>2 DEF Seed, TypeOK, PCs, Keyed
  <2> QED
    BY <1>10, <1>a, <1>b, <2>1, <2>3 DEF Seed
<1>11. CASE Pair
  <2>1. /\ saving' = TRUE /\ entries' = db_put(entries, session.addr, nextKey)
        /\ nextKey <= MaxKey /\ nextKey' = nextKey + 1
        /\ headset' = [headset EXCEPT ![session.addr] = nextKey]
    BY <1>11 DEF Pair, PutKey
  <2>2. nextKey \in Keys /\ nextKey' \in 1 .. MaxKey + 1
    BY <1>a, <2>1, KeyStoreAssumption DEF TypeOK, Keys
  <2>3. Keyed(entries') /\ saving' \in BOOLEAN
    BY <1>a, <1>c, <2>1, <2>2, PutKeyed
  <2>4. headset' \in [Devices -> Keys]
    BY <1>a, <2>1, <2>2 DEF TypeOK
  <2>5. TypeOK'
    BY <1>11, <1>a, <2>2, <2>3, <2>4
       DEF Pair, Linked, AfterConnect, TypeOK, PCs, Keyed
  <2> QED
    BY <1>11, <1>a, <1>b, <2>3, <2>5 DEF Pair
<1>12. CASE StackDropsKey
  <2>1. find_entry(entries, session.addr) \in DOMAIN entries
    BY <1>12, <1>a, FindCases DEF StackDropsKey, Has
  <2>2. saving' \in BOOLEAN /\ Keyed(entries')
    BY <1>12, <1>a, <2>1, RemovedKeyed DEF StackDropsKey
  <2>3. TypeOK'
    BY <1>12, <1>a, <2>2 DEF StackDropsKey, TypeOK, Keyed
  <2> QED
    BY <1>12, <1>a, <1>b, <2>2, <2>3 DEF StackDropsKey
<1>13. CASE PersistLoads
  <2>1. svcProfiles' \in Seq(Entry)
    <3> DEFINE loaded == LoadProfiles(profilesFile)
               i == find_entry(loaded, session.addr)
               k == get_link_key_hex(session.addr)
    <3>1. k \in Keys /\ loaded \in Seq(Entry)
      BY <1>a, FoundKey DEF get_link_key_hex, TypeOK
    <3>2. [loaded EXCEPT ![i].key = k] \in Seq(Entry)
      BY <3>1, KeySetAt
    <3>3. svcProfiles' = <<>> \/ svcProfiles' = [loaded EXCEPT ![i].key = k]
      BY <1>13 DEF PersistLoads
    <3> HIDE DEF loaded, i, k
    <3> QED
      BY <3>2, <3>3, Reads
  <2>2. /\ profilesFile' = profilesFile \/ profilesFile' = <<>>
        /\ pc' \in {"idle", "streaming", "writeFinal", "writeConnected"}
        /\ UNCHANGED <<frontEnd, ready, dbVars, uiProfiles, uiSaving, session,
                       worldVars, historyVars>>
    BY <1>13 DEF PersistLoads, TruncateProfiles
  <2>3. LoadProfiles(profilesFile') \in Seq(Entry)
    BY <1>a, <2>2, Reads DEF TypeOK
  <2>4. TypeOK'
    BY <1>a, <2>1, <2>2, <2>3 DEF TypeOK, PCs
  <2> QED
    BY <1>a, <1>b, <2>2, <2>4
<1>14. CASE PersistWrites
  <2>1. LoadProfiles(profilesFile') \in Seq(Entry)
    BY <1>14, <1>a, Reads DEF PersistWrites, WriteProfiles, TypeOK
  <2>2. TypeOK'
    BY <1>14, <1>a, <2>1, Reads DEF PersistWrites, TypeOK, PCs
  <2> QED
    BY <1>14, <1>a, <1>b, <2>2 DEF PersistWrites
<1>15. ASSUME NEW list \in Seq(Entry), UiSave(list) PROVE OneKeyPerHeadset'
  <2>1. LoadProfiles(profilesFile') \in Seq(Entry)
    BY <1>15, Reads DEF UiSave, TruncateProfiles
  <2>2. uiSaving' \in BOOLEAN
    BY <1>15 DEF UiSave
  <2>3. TypeOK'
    BY <1>15, <1>a, <2>1, <2>2 DEF UiSave, TypeOK
  <2> QED
    BY <1>15, <1>a, <1>b, <2>3 DEF UiSave
<1>16. CASE UiAdds
  <2>1. PICK d \in Devices :
           UiSave(Append(uiProfiles, [addr |-> d, key |-> NoKey]))
    BY <1>16 DEF UiAdds
  <2>2. [addr |-> d, key |-> NoKey] \in Entry /\ uiProfiles \in Seq(Entry)
    BY <1>a, Reads DEF Entry, TypeOK
  <2>3. Append(uiProfiles, [addr |-> d, key |-> NoKey]) \in Seq(Entry)
    BY <2>2
  <2> QED
    BY <1>15, <2>1, <2>3
<1>17. CASE UiEdits
  <2>1. PICK i \in DOMAIN uiProfiles, d \in Devices :
           UiSave([uiProfiles EXCEPT ![i] = [addr |-> d, key |-> NoKey]])
    BY <1>17 DEF UiEdits
  <2>2. [addr |-> d, key |-> NoKey] \in Entry /\ uiProfiles \in Seq(Entry)
    BY <1>a, Reads DEF Entry, TypeOK
  <2>3. [uiProfiles EXCEPT ![i] = [addr |-> d, key |-> NoKey]] \in Seq(Entry)
    BY <2>2, ExceptSeq, LenProperties
  <2> QED
    BY <1>15, <2>1, <2>3
<1>18. CASE UiDeletes
  <2>1. PICK i \in DOMAIN uiProfiles : UiSave(RemoveAt(uiProfiles, i))
    BY <1>18 DEF UiDeletes
  <2>2. RemoveAt(uiProfiles, i) \in Seq(Entry)
    BY <1>a, RemovedAt DEF TypeOK
  <2> QED
    BY <1>15, <2>1, <2>2
<1>19. CASE UiWrites
  <2>1. LoadProfiles(profilesFile') \in Seq(Entry)
    BY <1>19, <1>a, Reads DEF UiWrites, WriteProfiles, TypeOK
  <2>2. uiSaving' \in BOOLEAN
    BY <1>19 DEF UiWrites
  <2>3. TypeOK'
    BY <1>19, <1>a, <2>1, <2>2 DEF UiWrites, TypeOK
  <2> QED
    BY <1>19, <1>a, <1>b, <2>3 DEF UiWrites
<1>20. CASE Launch
  <2>1. uiProfiles' \in Seq(Entry) /\ frontEnd' \in {"wx", "winui"}
    BY <1>20, <1>a, Reads DEF Launch, TypeOK
  <2>2. TypeOK'
    BY <1>20, <1>a, <2>1 DEF Launch, TypeOK, PCs
  <2> QED
    BY <1>20, <1>a, <1>b, <2>2 DEF Launch
<1>21. CASE Exit
  <2>1. /\ ready' \in BOOLEAN /\ saving' \in BOOLEAN /\ uiSaving' \in BOOLEAN
        /\ trusted' \subseteq Devices /\ cut' \subseteq Devices
    BY <1>21, <1>a DEF Exit, CutIsLost, TypeOK
  <2>2. TypeOK'
    BY <1>21, <1>a, <2>1, Reads DEF Exit, TypeOK, PCs
  <2> QED
    BY <1>21, <1>a, <1>b, <2>2, Reads DEF Exit
<1>22. CASE KeyFileDeleted
  <2>1. TypeOK'
    BY <1>22, <1>a, Reads DEF KeyFileDeleted, TypeOK
  <2> QED
    BY <1>22, <1>a, <1>b, <2>1, Reads DEF KeyFileDeleted
<1>23. ASSUME NEW d \in Devices, HeadsetForgets(d) PROVE OneKeyPerHeadset'
  <2>1. headset' \in [Devices -> Keys]
    BY <1>23, <1>a, Reads DEF HeadsetForgets, TypeOK
  <2>2. TypeOK'
    BY <1>23, <1>a, <2>1 DEF HeadsetForgets, TypeOK
  <2> QED
    BY <1>23, <1>a, <1>b, <2>2 DEF HeadsetForgets
<1>24. CASE UNCHANGED vars
  <2>1. TypeOK'
    BY <1>24, <1>a DEF vars, TypeOK
  <2> QED
    BY <1>24, <1>a, <1>b, <2>1 DEF vars
<1> QED
  BY <1>1, <1>2, <1>3, <1>4, <1>5, <1>6, <1>7, <1>8, <1>9, <1>10, <1>11, <1>12,
     <1>13, <1>14, <1>16, <1>17, <1>18, <1>19, <1>20, <1>21, <1>22, <1>23,
     <1>24, <1>25 DEF Next


-----------------------------------------------------------------------------
(* Stored keys stay, and known headsets are not paired again.              *)

\* What a put does to the keys of the database, and to what the file is
\* trusted with.
LEMMA PutKeeps ==
    ASSUME OneKeyPerHeadset, NEW d \in Devices, NEW k \in Keys, PutKey(d, k)
    PROVE  /\ saving' = TRUE /\ KeyOf(entries', d) = k
           /\ \A e : e # d /\ e \notin Evictable(d) =>
                 KeyOf(entries', e) = KeyOf(entries, e)
<1>1. Keyed(entries) /\ entries' = db_put(entries, d, k) /\ saving' = TRUE
  BY DEF OneKeyPerHeadset, TypeOK, Keyed, PutKey
<1> QED
  BY <1>1, PutKeyed DEF Evictable

\* Every step keeps the database and its file in step with the headsets.
LEMMA NextMInv ==
    ASSUME OneKeyPerHeadset, MInv, SInv, [Next]_vars
    PROVE  MInv'
<1> USE DEF appVars, dbVars, profileVars, worldVars, historyVars
<1>a. /\ Keyed(entries) /\ Keyed(keyFile) /\ session.addr \in Devices
      /\ session.key \in Keys /\ headset \in [Devices -> Keys]
      /\ trusted \subseteq Devices
  BY DEF OneKeyPerHeadset, TypeOK, Keyed, Entry
<1>b. ASSUME UNCHANGED <<entries, keyFile, headset, trusted, outdated, cut>>,
             ready' => ready
      PROVE  MemoryAgrees'
  BY <1>b DEF MInv, MemoryAgrees
<1>c. SavesInUse /\ MemoryAgrees
  BY DEF MInv
<1>1. CASE SaveRenames
  <2>1. ready /\ keyFile' = entries /\ ~saving' /\ cut' = {}
        /\ UNCHANGED <<entries, headset, outdated, ready>>
    BY <1>1, <1>c DEF SaveRenames, SavesInUse
  <2>2. \A d \in trusted' : d \in trusted \/ KeyOf(entries, d) = headset[d]
    BY <1>1 DEF SaveRenames
  <2> QED
    BY <1>c, <2>1, <2>2 DEF MInv, MemoryAgrees, SavesInUse
<1>2. CASE SaveFails
  BY <1>2, <1>b, <1>c DEF SaveFails, MInv, SavesInUse
<1>18. CASE SaveCutShort
  <2>1. PICK n \in 0 .. Len(entries) - 1 : keyFile' = SubSeq(entries, 1, n)
    BY <1>18 DEF SaveCutShort
  <2>2. /\ ready /\ ~saving' /\ cut' = {d \in Devices : ~Has(keyFile', d)}
        /\ UNCHANGED <<entries, headset, trusted, outdated, ready>>
    BY <1>18, <1>c DEF SaveCutShort, SavesInUse
  <2>3. \A d \in Devices : d \notin cut' => KeyOf(keyFile', d) = KeyOf(entries, d)
    BY <1>a, <2>1, <2>2, PrefixKeyed
  <2> QED
    BY <1>a, <1>c, <2>2, <2>3 DEF MInv, MemoryAgrees, SavesInUse
<1>3. CASE StartSession
  BY <1>3, <1>b, <1>c DEF StartSession, MInv, SavesInUse
<1>4. CASE InitStack
  <2>1. ready' /\ UNCHANGED <<keyFile, headset, outdated>>
    BY <1>4 DEF InitStack
  <2>2. CASE ready
    BY <1>4, <1>c, <2>1, <2>2 DEF InitStack, MInv, MemoryAgrees, SavesInUse
  <2>3. CASE ~ready
    <3>1. entries' = keyFile /\ trusted' = trusted \ cut /\ cut' = {}
      BY <1>4, <1>a, <2>3, LoadsAll DEF InitStack, CutIsLost
    <3> QED
      BY <1>c, <2>1, <3>1 DEF MInv, MemoryAgrees, SavesInUse
  <2> QED
    BY <2>2, <2>3
<1>5. CASE Seed
  <2>1. /\ ready /\ UNCHANGED <<ready, keyFile, headset>>
    BY <1>5 DEF Seed, SInv
  <2>2. CASE session.key = NoKey
    BY <1>5, <1>b, <1>c, <2>1, <2>2 DEF Seed, MInv, SavesInUse
  <2>3. CASE session.key # NoKey
    <3>1. /\ PutKey(session.addr, session.key) /\ cut' = cut
          /\ trusted' = trusted \ Evictable(session.addr)
          /\ outdated' = IF session.key = headset[session.addr] THEN outdated
                         ELSE outdated \cup {session.addr}
      BY <1>5, <2>3 DEF Seed
    <3>2. /\ KeyOf(entries', session.addr) = session.key
          /\ \A e : e # session.addr /\ e \notin Evictable(session.addr) =>
                KeyOf(entries', e) = KeyOf(entries, e)
      BY <1>a, <3>1, PutKeeps
    <3>3. ASSUME NEW d \in trusted' \ outdated'
          PROVE  /\ d \notin cut => KeyOf(keyFile, d) = headset[d]
                 /\ KeyOf(entries', d) = headset[d]
      <4>1. d \in trusted \ outdated /\ d \notin Evictable(session.addr)
        BY <3>1, <3>3
      <4>2. d = session.addr => session.key = headset[session.addr]
        BY <3>1, <3>3
      <4> QED
        BY <1>c, <2>1, <3>2, <4>1, <4>2 DEF MemoryAgrees
    <3> QED
      BY <2>1, <3>1, <3>3 DEF MInv, MemoryAgrees, SavesInUse
  <2> QED
    BY <2>2, <2>3
<1>6. CASE ConnectWithKey
  BY <1>6, <1>b, <1>c DEF ConnectWithKey, MInv, SavesInUse
<1>7. CASE Pair
  <2>1. /\ ready /\ UNCHANGED <<ready, keyFile, cut>>
        /\ headset' = [headset EXCEPT ![session.addr] = nextKey]
        /\ trusted' = trusted \ ({session.addr} \cup Evictable(session.addr))
        /\ outdated' = outdated \ {session.addr}
        /\ PutKey(session.addr, nextKey)
    BY <1>7 DEF Pair, SInv, Linked
  <2>2. nextKey \in Keys
    BY <1>7, Reads DEF Pair, OneKeyPerHeadset, TypeOK
  <2>3. \A e : e # session.addr /\ e \notin Evictable(session.addr) =>
                KeyOf(entries', e) = KeyOf(entries, e)
    BY <1>a, <2>1, <2>2, PutKeeps
  <2>4. ASSUME NEW d \in trusted' \ outdated'
        PROVE  /\ d \notin cut => KeyOf(keyFile, d) = headset'[d]
               /\ KeyOf(entries', d) = headset'[d]
    <3>1. d \in trusted \ outdated /\ d # session.addr
          /\ d \notin Evictable(session.addr) /\ d \in Devices
      BY <1>a, <2>1, <2>4
    <3>2. headset'[d] = headset[d]
      BY <1>a, <2>1, <3>1
    <3> QED
      BY <1>c, <2>1, <2>3, <3>1, <3>2 DEF MemoryAgrees
  <2> QED
    BY <2>1, <2>4 DEF MInv, MemoryAgrees, SavesInUse
<1>8. CASE StackDropsKey
  <2> DEFINE i == find_entry(entries, session.addr)
  <2>1. /\ ready /\ entries' = RemoveAt(entries, i)
        /\ KeyOf(entries, session.addr) # headset[session.addr]
        /\ UNCHANGED <<ready, keyFile, headset, trusted, outdated, cut>>
    BY <1>8 DEF StackDropsKey, SInv, Linked
  <2>2. i \in DOMAIN entries /\ entries[i].addr = session.addr
    BY <1>8, <1>a, FindCases DEF StackDropsKey, Has
  <2> HIDE DEF i
  <2>3. \A d : d # session.addr => KeyOf(entries', d) = KeyOf(entries, d)
    BY <1>a, <2>1, <2>2, RemovedKeyed
  <2>4. session.addr \notin trusted \ outdated
    BY <1>c, <2>1 DEF MemoryAgrees
  <2> QED
    BY <1>c, <2>1, <2>3, <2>4 DEF MInv, MemoryAgrees, SavesInUse
<1>9. CASE LinkLost \/ SessionAborts \/ SessionEnds \/ ResetStack
  BY <1>9, <1>b, <1>c
     DEF LinkLost, SessionAborts, SessionEnds, ResetStack, MInv, SavesInUse
<1>10. CASE PersistLoads
  <2>1. /\ ~saving'
        /\ UNCHANGED <<ready, entries, keyFile, headset, trusted, outdated, cut>>
    BY <1>10 DEF PersistLoads
  <2> QED
    BY <1>b, <2>1 DEF MInv, SavesInUse
<1>11. CASE PersistWrites
  BY <1>11, <1>b, <1>c DEF PersistWrites, MInv, SavesInUse
<1>12. CASE UiAdds \/ UiEdits \/ UiDeletes \/ UiWrites
  <2>1. UNCHANGED <<appVars, dbVars, worldVars, historyVars>>
    BY <1>12 DEF UiAdds, UiEdits, UiDeletes, UiWrites, UiSave
  <2> QED
    BY <1>b, <1>c, <2>1 DEF MInv, SavesInUse
<1>13. CASE Launch
  BY <1>13, <1>b, <1>c DEF Launch, MInv, SavesInUse
<1>14. CASE Exit
  <2>1. /\ ~saving' /\ ~ready' /\ trusted' = trusted \ cut /\ cut' = {}
        /\ UNCHANGED <<keyFile, headset, outdated>>
    BY <1>14 DEF Exit, CutIsLost
  <2> QED
    BY <1>c, <2>1 DEF MInv, SavesInUse, MemoryAgrees
<1>15. CASE KeyFileDeleted
  BY <1>15, <1>c DEF KeyFileDeleted, MInv, SavesInUse, MemoryAgrees
<1>16. ASSUME NEW d \in Devices, HeadsetForgets(d) PROVE MInv'
  <2>1. /\ headset' = [headset EXCEPT ![d] = NoKey] /\ trusted' = trusted \ {d}
        /\ UNCHANGED <<ready, dbVars, outdated, cut>>
    BY <1>16 DEF HeadsetForgets
  <2>2. \A e \in trusted' : headset'[e] = headset[e]
    BY <1>a, <2>1
  <2> QED
    BY <1>c, <2>1, <2>2 DEF MInv, SavesInUse, MemoryAgrees
<1>17. CASE UNCHANGED vars
  BY <1>17, <1>b, <1>c DEF vars, MInv, SavesInUse
<1> QED
  BY <1>1, <1>2, <1>3, <1>4, <1>5, <1>6, <1>7, <1>8, <1>9, <1>10, <1>11, <1>12,
     <1>13, <1>14, <1>15, <1>16, <1>17, <1>18 DEF Next

\* Every step keeps the profile's key in the database for as long as the
\* headset holds it.
LEMMA NextSInv ==
    ASSUME OneKeyPerHeadset, MInv, SInv, [Next]_vars
    PROVE  SInv'
<1> USE DEF appVars, dbVars, profileVars, worldVars, historyVars
<1>a. /\ Keyed(entries) /\ session.addr \in Devices /\ session.key \in Keys
      /\ headset \in [Devices -> Keys]
  BY DEF OneKeyPerHeadset, TypeOK, Keyed, Entry
<1>b. ASSUME UNCHANGED <<entries, session, headset, ready>>,
             pc \in {"off", "idle", "init", "seed"} => pc' = pc \/ pc' = "idle"
                \/ pc' = "off" \/ pc' = "init"
      PROVE  SInv'
  BY <1>b DEF SInv
<1>1. CASE SaveRenames \/ SaveCutShort \/ SaveFails
  BY <1>1, <1>b DEF SaveRenames, SaveCutShort, SaveFails
<1>2. CASE StartSession
  BY <1>2 DEF StartSession, SInv
<1>3. CASE InitStack
  BY <1>3 DEF InitStack, SInv
<1>4. CASE Seed
  <2>1. pc' = "connect" /\ ready /\ UNCHANGED <<ready, session, headset>>
    BY <1>4 DEF Seed, SInv
  <2>2. session.key # NoKey => KeyOf(entries', session.addr) = session.key
    BY <1>4, <1>a, PutKeeps DEF Seed
  <2> QED
    BY <2>1, <2>2 DEF SInv
<1>5. CASE ConnectWithKey
  <2>1. UNCHANGED <<entries, session, headset, ready>>
        /\ pc \in {"connect", "reconnect"}
    BY <1>5 DEF ConnectWithKey
  <2> QED
    BY <1>b, <2>1
<1>6. CASE Pair
  <2>1. /\ ready' /\ UNCHANGED session /\ PutKey(session.addr, nextKey)
        /\ headset' = [headset EXCEPT ![session.addr] = nextKey]
    BY <1>6 DEF Pair, SInv, Linked
  <2>2. nextKey \in Keys
    BY <1>6, Reads DEF Pair, OneKeyPerHeadset, TypeOK
  <2>3. KeyOf(entries', session.addr) = nextKey /\ headset'[session.addr] = nextKey
    BY <1>a, <2>1, <2>2, PutKeeps
  <2> QED
    BY <2>1, <2>3 DEF SInv
<1>7. CASE StackDropsKey
  <2>1. /\ ready' /\ UNCHANGED <<pc, session, headset>>
        /\ pc \in Linked
        /\ KeyOf(entries, session.addr) # headset[session.addr]
    BY <1>7 DEF StackDropsKey, SInv, Linked
  <2>2. session.key = NoKey \/ session.key # headset[session.addr]
    BY <2>1 DEF SInv, Linked
  <2> QED
    BY <2>1, <2>2 DEF SInv
<1>8. CASE LinkLost \/ SessionAborts \/ SessionEnds
  BY <1>8, <1>b DEF LinkLost, SessionAborts, SessionEnds
<1>9. CASE PersistLoads
  BY <1>9, <1>b DEF PersistLoads
<1>10. CASE PersistWrites
  BY <1>10, <1>b DEF PersistWrites
<1>11. CASE ResetStack
  BY <1>11 DEF ResetStack, SInv
<1>12. CASE UiAdds \/ UiEdits \/ UiDeletes \/ UiWrites
  <2>1. UNCHANGED <<appVars, dbVars, session, worldVars, historyVars>>
    BY <1>12 DEF UiAdds, UiEdits, UiDeletes, UiWrites, UiSave
  <2> QED
    BY <1>b, <2>1
<1>13. CASE Launch \/ Exit
  BY <1>13 DEF Launch, Exit, SInv
<1>14. CASE KeyFileDeleted
  BY <1>14, <1>b DEF KeyFileDeleted
<1>15. ASSUME NEW d \in Devices, HeadsetForgets(d) PROVE SInv'
  <2>1. /\ headset' = [headset EXCEPT ![d] = NoKey]
        /\ UNCHANGED <<pc, ready, entries, session>>
    BY <1>15 DEF HeadsetForgets
  <2>2. headset'[session.addr] \in {NoKey, headset[session.addr]}
    BY <1>a, <2>1
  <2> QED
    BY <2>1, <2>2 DEF SInv
<1>16. CASE UNCHANGED vars
  BY <1>16, <1>b DEF vars
<1> QED
  BY <1>1, <1>2, <1>3, <1>4, <1>5, <1>6, <1>7, <1>8, <1>9, <1>10, <1>11, <1>12,
     <1>13, <1>14, <1>15, <1>16 DEF Next

-----------------------------------------------------------------------------
(* The theorems.                                                           *)

\* The database and link_keys.txt never hold two keys for a headset or more
\* keys than MAX_LINK_KEYS, whatever is put, dropped, evicted or reloaded.
THEOREM StoreOneKeyEach == Spec => []OneKeyPerHeadset
<1>1. Init => OneKeyPerHeadset
  BY InitAll
<1>2. OneKeyPerHeadset /\ [Next]_vars => OneKeyPerHeadset'
  BY NextOneKey
<1> QED
  BY <1>1, <1>2, PTL DEF Spec

\* Both invariants of the stored keys hold.
LEMMA StoreAgrees == Spec => [](MInv /\ SInv)
<1>1. Init => MInv /\ SInv
  BY InitAll
<1>2. OneKeyPerHeadset /\ (MInv /\ SInv) /\ [Next]_vars => (MInv /\ SInv)'
  BY NextMInv, NextSInv
<1> QED
  BY <1>1, <1>2, StoreOneKeyEach, PTL DEF Spec

\* Once link_keys.txt has a headset's key it keeps it, through crashes at any
\* step, saves that cannot begin, evictions, later pairings and edits of
\* profiles, but for the seeding of an outdated copy; a key that a write cut
\* short has left out stays in the database's memory for the next save
\* (save_to_file(), persist_link_key()).
THEOREM StoreKeepsKeys == Spec => []KeyKept
<1>1. MInv => KeyKept
  BY DEF MInv, MemoryAgrees, KeyKept
<1> QED
  BY <1>1, StoreAgrees, PTL

\* A pairing happens only where it must.
LEMMA NextPairs ==
    ASSUME OneKeyPerHeadset, MInv, SInv, [Next]_vars,
           NEW d \in Devices, headset'[d] \notin {headset[d], NoKey}
    PROVE  \/ headset[d] = NoKey
           \/ session.key # headset[d] /\ d \notin trusted \ outdated
<1> USE DEF appVars, dbVars, profileVars, worldVars, historyVars
<1>a. headset \in [Devices -> Keys] /\ session.addr \in Devices
  BY DEF OneKeyPerHeadset, TypeOK, Entry
<1>1. Pair
  <2>1. headset' # headset
    OBVIOUS
  <2>2. ASSUME NEW e \in Devices, HeadsetForgets(e) PROVE FALSE
    <3>1. headset' = [headset EXCEPT ![e] = NoKey]
      BY <2>2 DEF HeadsetForgets
    <3> QED
      BY <1>a, <3>1
  <2>3. ASSUME \/ SaveRenames \/ SaveCutShort \/ SaveFails \/ StartSession \/ InitStack
               \/ Seed \/ ConnectWithKey \/ StackDropsKey \/ LinkLost
               \/ SessionAborts \/ SessionEnds
        PROVE  FALSE
    BY <2>1, <2>3 DEF SaveRenames, SaveCutShort, SaveFails, StartSession,
       InitStack, Seed, ConnectWithKey, StackDropsKey, LinkLost, SessionAborts, SessionEnds
  <2>4. ASSUME \/ PersistLoads \/ PersistWrites \/ ResetStack \/ UiAdds
               \/ UiEdits \/ UiDeletes \/ UiWrites \/ Launch \/ Exit
               \/ KeyFileDeleted \/ UNCHANGED vars
        PROVE  FALSE
    BY <2>1, <2>4 DEF PersistLoads, PersistWrites, ResetStack, UiAdds, UiEdits,
       UiDeletes, UiWrites, UiSave, Launch, Exit, KeyFileDeleted, vars
  <2> QED
    BY <2>2, <2>3, <2>4 DEF Next
<1>2. /\ pc \in Linked /\ ready
      /\ headset[session.addr] = NoKey
         \/ KeyOf(entries, session.addr) # headset[session.addr]
      /\ headset' = [headset EXCEPT ![session.addr] = nextKey]
  BY <1>1 DEF Pair, SInv, Linked
<1>3. d = session.addr
  BY <1>a, <1>2
<1>4. CASE headset[d] # NoKey
  <2>1. session.key # headset[d]
    BY <1>2, <1>3, <1>4 DEF SInv, Linked
  <2>2. d \notin trusted \ outdated
    BY <1>2, <1>3, <1>4 DEF MInv, MemoryAgrees
  <2> QED
    BY <2>1, <2>2
<1> QED
  BY <1>4

\* A headset pairs anew only when it forgot its key, or when neither the
\* session's profile nor link_keys.txt has the key it holds.
THEOREM StorePairsWhenNeeded == Spec => PairsOnlyWhenNeeded
<1>1. OneKeyPerHeadset /\ (MInv /\ SInv) /\ [Next]_vars =>
         [\A d \in Devices : headset'[d] \notin {headset[d], NoKey} =>
             \/ headset[d] = NoKey
             \/ /\ session.key # headset[d]
                /\ d \notin trusted \ outdated]_vars
  BY NextPairs
<1> QED
  BY <1>1, StoreOneKeyEach, StoreAgrees, PTL DEF Spec, PairsOnlyWhenNeeded

-----------------------------------------------------------------------------
(* The dongle's driver.                                                    *)

\* What the store has is what the node can have: it keeps the vendor's
\* package, WinUSB comes from a package that brings it, and so does another
\* service; without the dongle there is no node.
StoreInv ==
    /\ "vendor" \in store
    /\ node = "WinUSB" => store \cap WinUsbPackages # {}
    /\ node = "libusb" => "other" \in store
    /\ ~plugged => node = "none"

\* The panel is busy while a switch runs.  A switch to WinUSB has installed
\* its package before the node goes and comes back, a switch to the Bluetooth
\* driver has deleted every WinUSB package by then.
ProgressInv ==
    /\ driverBusy = (sw # "none")
    /\ toDelete \subseteq WinUsbPackages
    /\ sw \in {"cert", "inf", "catalog", "sign", "add"} => want
    /\ sw = "delete" => store \cap WinUsbPackages \subseteq toDelete
    /\ sw \in {"remove", "scan"} /\ ~want => store \cap WinUsbPackages = {}
    /\ sw = "remove" /\ want => "ours" \in store /\ node \in {"WinUSB", "none"}
    /\ sw = "scan" /\ want => "ours" \in store /\ node \in {"WinUSB", "none"}
    /\ sw = "scan" /\ instance_id => node # "noService"

\* What a switch that is over has left behind.
OutcomeInv ==
    sw \in {"none", "report"} =>
        /\ report \in {"Ok", "NoChange"} /\ instance_id =>
              /\ node # "noService"
              /\ plugged => node # "none"
        /\ report = "Ok" /\ want =>
              "ours" \in store /\ node \in {"WinUSB", "none"}
        /\ report = "Ok" /\ ~want => store \cap WinUsbPackages = {}

\* The services the packages bring.
LEMMA BroughtBy ==
    /\ ServiceOf["vendor"] = "BTHUSB" /\ ServiceOf["zadig"] = "WinUSB"
    /\ ServiceOf["ours"] = "WinUSB" /\ ServiceOf["other"] = "libusb"
BY DEF ServiceOf

\* What Setup picks is a service some package in the store brings, and the
\* one of this program's package when that is there.
LEMMA BestOf ==
    ASSUME NEW s \in SUBSET Packages, "vendor" \in s, NEW n \in Best(s)
    PROVE  /\ n \in {"BTHUSB", "WinUSB", "libusb"}
           /\ n = "WinUSB" => s \cap WinUsbPackages # {}
           /\ n = "libusb" => "other" \in s
           /\ "ours" \in s => n = "WinUSB"
<1>1. CASE "ours" \in s
  BY <1>1, BroughtBy DEF Best, WinUsbPackages
<1>2. CASE "ours" \notin s /\ s \cap {"zadig", "other"} # {}
  BY <1>2, BroughtBy DEF Best, WinUsbPackages
<1>3. CASE "ours" \notin s /\ s \cap {"zadig", "other"} = {}
  BY <1>3, BroughtBy DEF Best
<1> QED
  BY <1>1, <1>2, <1>3

\* Setup only ever gives the node a service that StoreInv allows it.
LEMMA Picked ==
    ASSUME store \in SUBSET Packages, "vendor" \in store, node' \in Best(store)
    PROVE  /\ node' \in {"BTHUSB", "WinUSB", "libusb"}
           /\ node' = "WinUSB" => store \cap WinUsbPackages # {}
           /\ node' = "libusb" => "other" \in store
           /\ "ours" \in store => node' = "WinUSB"
BY BestOf

\* Deleting a WinUSB package leaves the store with the others, and the node
\* with a service of theirs, the one it had, or none.
LEMMA Deleted ==
    ASSUME SwitchTypeOK, StoreInv, NEW p \in WinUsbPackages, Uninstalled(p)
    PROVE  /\ store' = store \ {p} /\ store' \subseteq Packages
           /\ "vendor" \in store' /\ ("other" \in store => "other" \in store')
           /\ node' \in Services /\ (node' = "none" => node = "none")
           /\ node = "none" => node' = "none"
           /\ node' = "WinUSB" => store' \cap WinUsbPackages # {}
           /\ node' = "libusb" => "other" \in store'
<1>1. /\ store' = store \ {p} /\ store' \subseteq Packages /\ "vendor" \in store'
      /\ "other" \in store => "other" \in store'
      /\ p \in {"zadig", "ours"}
  BY DEF Uninstalled, SwitchTypeOK, StoreInv, WinUsbPackages
<1>2. ServiceOf[p] = "WinUSB"
  BY <1>1, BroughtBy
<1>3. CASE node = "WinUSB"
  <2>1. node' \in Best(store') \/ node' = "noService"
    BY <1>2, <1>3 DEF Uninstalled
  <2>2. node' \in Best(store') =>
            /\ node' \in {"BTHUSB", "WinUSB", "libusb"}
            /\ node' = "WinUSB" => store' \cap WinUsbPackages # {}
            /\ node' = "libusb" => "other" \in store'
    BY <1>1, BestOf
  <2> QED
    BY <1>1, <1>3, <2>1, <2>2 DEF Services
<1>4. CASE node # "WinUSB"
  <2>1. node' = node
    BY <1>2, <1>4 DEF Uninstalled
  <2> QED
    BY <1>1, <1>4, <2>1 DEF SwitchTypeOK, StoreInv
<1> QED
  BY <1>3, <1>4

-----------------------------------------------------------------------------
(* The steps of the switch, by what they do to the store and the node.     *)

\* The files a switch writes and the certificate leave the dongle alone.
FileStep ==
    /\ sw \in {"cert", "inf", "catalog", "sign"}
    /\ UNCHANGED <<store, node, plugged, want, toDelete, instance_id,
                   driverBusy>>
    /\ \/ sw' \in {"inf", "catalog", "sign", "add"} /\ report' = report
       \/ sw' = "report" /\ report' \in {"InfWriteError", "PnPError"}

LEMMA FileSteps ==
    ASSUME \/ EnsureSigningPfx \/ WriteWinusbInf \/ MakeCatalog \/ SignCatalog
    PROVE  FileStep
<1> USE DEF FileStep, Return, osVars, certVars, uiVars
<1>1. CASE EnsureSigningPfx
  BY <1>1 DEF EnsureSigningPfx
<1>2. CASE WriteWinusbInf
  BY <1>2 DEF WriteWinusbInf, PackageStep
<1>3. CASE MakeCatalog
  BY <1>3 DEF MakeCatalog, PackageStep
<1>4. CASE SignCatalog
  BY <1>4 DEF SignCatalog, PackageStep
<1> QED
  BY <1>1, <1>2, <1>3, <1>4

\* The panel and the user between them only start switches and end them.
PanelStep ==
    /\ UNCHANGED <<store, node, plugged, toDelete, instance_id, report>>
    /\ \/ UNCHANGED <<sw, want, driverBusy>>
       \/ ~driverBusy /\ driverBusy' = TRUE /\ sw' = "detect"
       \/ /\ sw = "report" /\ sw' = "none" /\ driverBusy' = FALSE
          /\ want' = want

LEMMA PanelSteps ==
    ASSUME \/ RunDriverSwitch \/ SwitchReported \/ RefreshDriverMode
           \/ SetStreamingUi \/ UNCHANGED switchVars
    PROVE  PanelStep
BY DEF RunDriverSwitch, SwitchReported, RefreshDriverMode, SetStreamingUi,
       switchVars, osVars, certVars, uiVars, PanelStep

\* What is detected is one of the modes, and tells the service.
LEMMA Detected ==
    ASSUME node \in Services
    PROVE  /\ detect_dongle_driver \in Modes
           /\ detect_dongle_driver = "NotPresent" <=>
                 node \in {"none", "noService"}
           /\ detect_dongle_driver = "WinUsbStream" <=> node = "WinUSB"
           /\ detect_dongle_driver = "BthUsb" <=> node = "BTHUSB"
<1> USE DEF detect_dongle_driver, Modes
<1>1. CASE node = "WinUSB"
  BY <1>1
<1>2. CASE node = "BTHUSB"
  BY <1>2
<1>3. CASE node = "libusb"
  BY <1>3
<1>4. CASE node \in {"none", "noService"}
  BY <1>4
<1> QED
  BY <1>1, <1>2, <1>3, <1>4 DEF Services

\* The outcomes of the detection: no dongle, nothing to do, or a switch that
\* first deletes every WinUSB package there is.
DetectStep ==
    /\ sw = "detect" /\ instance_id' \in BOOLEAN
    /\ UNCHANGED <<store, node, plugged, want, driverBusy>>
    /\ \/ sw' = "report" /\ report' = "NotPresent" /\ toDelete' = toDelete
       \/ /\ sw' = "report" /\ report' = "NoChange" /\ toDelete' = toDelete
          /\ node \in {"WinUSB", "BTHUSB"}
       \/ /\ sw' = "delete" /\ report' = report
          /\ toDelete' = store \cap WinUsbPackages

LEMMA DetectSteps == ASSUME SwitchTypeOK, Detect PROVE DetectStep
<1>a. node \in Services
  BY DEF SwitchTypeOK
<1> USE DEF Detect, DetectStep, osVars, certVars, uiVars, Return
<1>1. CASE detect_dongle_driver = "NotPresent"
  BY <1>1 DEF Requested
<1>2. CASE detect_dongle_driver # "NotPresent" /\ detect_dongle_driver = Requested
  <2>1. node \in {"WinUSB", "BTHUSB"}
    BY <1>2, <1>a, Detected DEF Requested
  <2> QED
    BY <1>2, <2>1
<1>3. CASE detect_dongle_driver # "NotPresent" /\ detect_dongle_driver # Requested
  BY <1>3 DEF find_winusb_infs
<1> QED
  BY <1>1, <1>2, <1>3

-----------------------------------------------------------------------------
(* Every step keeps the invariant.                                         *)

LEMMA SwitchSteps ==
    ASSUME SwitchTypeOK, [SwitchNext]_switchVars
    PROVE  \/ DetectStep \/ DeletePackage \/ DeletedAll \/ FileStep
           \/ AddDriver \/ RemoveDevice \/ ScanDevices \/ PanelStep \/ Replug
BY DetectSteps, FileSteps, PanelSteps DEF SwitchNext, SwitchThread

\* The deletion of one package, with its failures.
DeleteStep(p) ==
    /\ sw = "delete" /\ p \in toDelete
    /\ UNCHANGED <<plugged, want, instance_id, driverBusy>>
    /\ \/ /\ Uninstalled(p) /\ toDelete' = toDelete \ {p}
          /\ UNCHANGED <<sw, report>>
       \/ /\ Uninstalled(p) \/ UNCHANGED <<store, node>>
          /\ UNCHANGED toDelete /\ sw' = "report"
          /\ report' \in {"ElevationCancelled", "PnPError"}

LEMMA DeleteSteps == ASSUME DeletePackage PROVE \E p \in toDelete : DeleteStep(p)
BY DEF DeletePackage, DeleteStep, ToolFails, Return, certVars, uiVars

\* A tool of the last three steps: it has its effect and the switch goes on,
\* or the switch is over with an error, with or without the effect.
ToolStep(from, to, effect) ==
    /\ sw = from
    /\ UNCHANGED <<plugged, want, toDelete, instance_id, driverBusy>>
    /\ \/ /\ effect /\ sw' = to
          /\ report' = IF to = "report" THEN "Ok" ELSE report
       \/ /\ effect \/ UNCHANGED <<store, node>>
          /\ sw' = "report" /\ report' \in {"ElevationCancelled", "PnPError"}

\* The node goes, where it is known.
Dropped == IF instance_id THEN Removed ELSE UNCHANGED <<store, node>>

LEMMA ToolSteps ==
    /\ AddDriver => ToolStep("add", "remove", Installed)
    /\ RemoveDevice => ToolStep("remove", "scan", Dropped)
    /\ ScanDevices => ToolStep("scan", "report", Rescanned)
BY DEF AddDriver, RemoveDevice, Dropped, ScanDevices, ToolStep, ToolFails, Return,
       certVars, uiVars

\* The switch, its panel and the certificate keep their types.
LEMMA NextFlags ==
    ASSUME SwitchTypeOK, [SwitchNext]_switchVars
    PROVE  /\ pfx' \in BOOLEAN /\ certOk' \in BOOLEAN /\ sdk' \in BOOLEAN
           /\ isStreaming' \in BOOLEAN /\ driverBusy' \in BOOLEAN
           /\ want' \in BOOLEAN /\ plugged' \in BOOLEAN /\ shown' \in Modes
           /\ instance_id' \in BOOLEAN
<1>a. /\ pfx \in BOOLEAN /\ certOk \in BOOLEAN /\ sdk \in BOOLEAN
      /\ isStreaming \in BOOLEAN /\ driverBusy \in BOOLEAN
      /\ want \in BOOLEAN /\ plugged \in BOOLEAN /\ shown \in Modes
      /\ instance_id \in BOOLEAN
  BY DEF SwitchTypeOK
<1>b. detect_dongle_driver \in Modes
  BY Detected DEF SwitchTypeOK
<1> USE DEF osVars, certVars, uiVars
<1>1. CASE Detect \/ DeletePackage \/ DeletedAll
  BY <1>1, <1>a DEF Detect, DeletePackage, DeletedAll
<1>2. CASE EnsureSigningPfx
  BY <1>2, <1>a DEF EnsureSigningPfx
<1>3. CASE WriteWinusbInf \/ MakeCatalog \/ SignCatalog
  BY <1>3, <1>a DEF WriteWinusbInf, MakeCatalog, SignCatalog, PackageStep
<1>4. CASE AddDriver \/ RemoveDevice \/ ScanDevices
  BY <1>4, <1>a DEF AddDriver, RemoveDevice, ScanDevices
<1>5. CASE RunDriverSwitch \/ SetStreamingUi \/ Replug
  BY <1>5, <1>a DEF RunDriverSwitch, SetStreamingUi, Replug
<1>6. CASE SwitchReported \/ RefreshDriverMode
  BY <1>6, <1>a, <1>b DEF SwitchReported, RefreshDriverMode
<1>7. CASE UNCHANGED switchVars
  BY <1>7, <1>a DEF switchVars
<1> QED
  BY <1>1, <1>2, <1>3, <1>4, <1>5, <1>6, <1>7 DEF SwitchNext, SwitchThread

\* One step of the switch, the panel or the user.
LEMMA NextDongle ==
    ASSUME SwitchTypeOK, StoreInv, ProgressInv, OutcomeInv,
           [SwitchNext]_switchVars
    PROVE  /\ store' \subseteq Packages /\ node' \in Services
           /\ sw' \in Steps /\ toDelete' \subseteq Packages /\ report' \in Results
           /\ StoreInv' /\ ProgressInv' /\ OutcomeInv'
<1>a. /\ store \subseteq Packages /\ node \in Services /\ sw \in Steps
      /\ toDelete \subseteq Packages /\ report \in Results
      /\ want \in BOOLEAN /\ plugged \in BOOLEAN /\ driverBusy \in BOOLEAN
  BY DEF SwitchTypeOK
<1>b. "vendor" \in store /\ WinUsbPackages \subseteq Packages
  BY DEF StoreInv, WinUsbPackages, Packages
<1> USE DEF Services, Steps, Results
<1>1. CASE DetectStep
  BY <1>1, <1>a, <1>b DEF DetectStep, StoreInv, ProgressInv, OutcomeInv
<1>2. CASE DeletePackage
  <2>1. PICK p \in toDelete : DeleteStep(p)
    BY <1>2, DeleteSteps
  <2>2. p \in WinUsbPackages
    BY DEF ProgressInv
  <2>3. CASE Uninstalled(p)
    <3>1. /\ store' = store \ {p} /\ store' \subseteq Packages
          /\ "vendor" \in store' /\ ("other" \in store => "other" \in store')
          /\ node' \in Services /\ (node' = "none" => node = "none")
          /\ node = "none" => node' = "none"
          /\ node' = "WinUSB" => store' \cap WinUsbPackages # {}
          /\ node' = "libusb" => "other" \in store'
      BY <2>2, <2>3, Deleted
    <3>2. StoreInv'
      BY <2>1, <3>1 DEF DeleteStep, StoreInv
    <3> QED
      BY <1>a, <2>1, <3>1, <3>2 DEF DeleteStep, ProgressInv, OutcomeInv
  <2>4. CASE UNCHANGED <<store, node>> /\ sw' = "report"
    <3>1. /\ UNCHANGED <<plugged, want, driverBusy, toDelete, instance_id>>
          /\ sw = "delete"
          /\ report' \in {"ElevationCancelled", "PnPError"}
      BY <2>1, <2>4 DEF DeleteStep
    <3>2. StoreInv' /\ ProgressInv'
      BY <2>4, <3>1 DEF StoreInv, ProgressInv
    <3> QED
      BY <1>a, <2>4, <3>1, <3>2 DEF OutcomeInv
  <2> QED
    BY <2>1, <2>3, <2>4 DEF DeleteStep
<1>3. CASE DeletedAll
  BY <1>3, <1>a DEF DeletedAll, osVars, certVars, uiVars, StoreInv, ProgressInv,
                    OutcomeInv
<1>4. CASE FileStep
  BY <1>4, <1>a DEF FileStep, StoreInv, ProgressInv, OutcomeInv
<1>5. CASE AddDriver
  <2>1. ToolStep("add", "remove", Installed)
    BY <1>5, ToolSteps
  <2>2. CASE Installed
    <3>1. /\ store' = store \cup {"ours"} /\ "ours" \in WinUsbPackages
          /\ "ours" \in Packages
          /\ node' = IF node = "none" THEN "none" ELSE "WinUSB"
      BY <2>2 DEF Installed, WinUsbPackages, Packages
    <3>2. StoreInv'
      BY <2>1, <3>1 DEF ToolStep, StoreInv
    <3> QED
      BY <1>a, <2>1, <3>1, <3>2 DEF ToolStep, ProgressInv, OutcomeInv
  <2>3. CASE UNCHANGED <<store, node>> /\ sw' = "report"
    BY <1>a, <2>1, <2>3 DEF ToolStep, StoreInv, ProgressInv, OutcomeInv
  <2> QED
    BY <2>1, <2>2, <2>3 DEF ToolStep
<1>6. CASE RemoveDevice
  <2>1. ToolStep("remove", "scan", Dropped)
    BY <1>6, ToolSteps
  <2>2. CASE Removed
    BY <1>a, <2>1, <2>2 DEF Removed, ToolStep, StoreInv, ProgressInv, OutcomeInv
  <2>3. CASE UNCHANGED <<store, node>> /\ sw' = "scan" /\ ~instance_id
    BY <1>a, <2>1, <2>3 DEF ToolStep, StoreInv, ProgressInv, OutcomeInv
  <2>4. CASE UNCHANGED <<store, node>> /\ sw' = "report"
    BY <1>a, <2>1, <2>4 DEF ToolStep, StoreInv, ProgressInv, OutcomeInv
  <2> QED
    BY <2>1, <2>2, <2>3, <2>4 DEF ToolStep, Dropped
<1>7. CASE ScanDevices
  <2>1. ToolStep("scan", "report", Rescanned)
    BY <1>7, ToolSteps
  <2>2. CASE Rescanned
    <3>1. /\ store' = store
          /\ \/ node # "none" /\ node' = node
             \/ node = "none" /\ plugged /\ node' \in Best(store)
             \/ node = "none" /\ ~plugged /\ node' = "none"
      BY <2>2 DEF Rescanned, Evaluated
    <3>2. node' \in Best(store) =>
             /\ node' \in {"BTHUSB", "WinUSB", "libusb"}
             /\ node' = "WinUSB" => store \cap WinUsbPackages # {}
             /\ node' = "libusb" => "other" \in store
             /\ "ours" \in store => node' = "WinUSB"
      BY <1>a, <1>b, Picked
    <3>3. StoreInv'
      BY <2>1, <3>1, <3>2 DEF ToolStep, StoreInv
    <3> QED
      BY <1>a, <2>1, <3>1, <3>2, <3>3 DEF ToolStep, ProgressInv, OutcomeInv
  <2>3. CASE UNCHANGED <<store, node>> /\ report' # "Ok" /\ report' # "NoChange"
    BY <1>a, <2>1, <2>3 DEF ToolStep, StoreInv, ProgressInv, OutcomeInv
  <2> QED
    BY <2>1, <2>2, <2>3 DEF ToolStep
<1>8. CASE PanelStep
  <2>1. /\ UNCHANGED <<store, node, plugged, toDelete, instance_id, report>>
        /\ StoreInv'
    BY <1>8 DEF PanelStep, StoreInv
  <2>2. CASE UNCHANGED <<sw, want, driverBusy>>
    BY <1>a, <2>1, <2>2 DEF ProgressInv, OutcomeInv
  <2>3. CASE ~driverBusy /\ driverBusy' = TRUE /\ sw' = "detect"
    BY <1>a, <2>1, <2>3 DEF ProgressInv, OutcomeInv
  <2>4. CASE /\ sw = "report" /\ sw' = "none" /\ driverBusy' = FALSE
             /\ want' = want
    BY <1>a, <2>1, <2>4 DEF ProgressInv, OutcomeInv
  <2> QED
    BY <1>8, <2>2, <2>3, <2>4 DEF PanelStep
<1>9. CASE Replug
  <2>1. /\ UNCHANGED <<store, sw, want, toDelete, instance_id, report,
                       driverBusy>>
        /\ plugged' = ~plugged
        /\ IF plugged THEN node' = "none" ELSE node' \in Best(store)
    BY <1>9 DEF Replug, certVars, uiVars
  <2>2. node' \in Best(store) =>
           /\ node' \in {"BTHUSB", "WinUSB", "libusb"}
           /\ node' = "WinUSB" => store \cap WinUsbPackages # {}
           /\ node' = "libusb" => "other" \in store
           /\ "ours" \in store => node' = "WinUSB"
    BY <1>a, <1>b, Picked
  <2>3. CASE plugged
    <3>1. node' = "none" /\ ~plugged'
      BY <2>1, <2>3
    <3> QED
      BY <1>a, <2>1, <3>1 DEF StoreInv, ProgressInv, OutcomeInv
  <2>4. CASE ~plugged
    <3>1. node' \in Best(store)
      BY <2>1, <2>4
    <3>2. StoreInv' /\ node' \in Services
      BY <2>1, <2>2, <3>1 DEF StoreInv
    <3>3. ProgressInv' /\ OutcomeInv'
      BY <2>1, <2>2, <3>1 DEF ProgressInv, OutcomeInv
    <3> QED
      BY <1>a, <2>1, <3>2, <3>3
  <2> QED
    BY <2>3, <2>4
<1> QED
  BY <1>1, <1>2, <1>3, <1>4, <1>5, <1>6, <1>7, <1>8, <1>9, SwitchSteps

\* The inductive invariant.
SwitchInv == SwitchTypeOK /\ StoreInv /\ ProgressInv /\ OutcomeInv

LEMMA SwitchInductive == SwitchSpec => []SwitchInv
<1>1. SwitchInit => SwitchInv
  <2> SUFFICES ASSUME SwitchInit PROVE SwitchInv
    OBVIOUS
  <2>1. /\ store \in SUBSET Packages /\ "vendor" \in store
        /\ plugged \in BOOLEAN
        /\ IF plugged THEN node \in Best(store) ELSE node = "none"
    BY DEF SwitchInit
  <2>2. node \in Best(store) =>
           /\ node \in {"BTHUSB", "WinUSB", "libusb"}
           /\ node = "WinUSB" => store \cap WinUsbPackages # {}
           /\ node = "libusb" => "other" \in store
    BY <2>1, BestOf
  <2>3. StoreInv /\ node \in Services
    BY <2>1, <2>2 DEF StoreInv, Services
  <2>4. /\ {plugged, pfx, certOk, sdk, want, instance_id, isStreaming,
            driverBusy}
              \subseteq BOOLEAN
        /\ sw \in Steps /\ toDelete \subseteq Packages /\ report \in Results
        /\ shown \in Modes
    BY <2>1, <2>3, Detected DEF SwitchInit, Steps, Results
  <2>5. ProgressInv /\ OutcomeInv
    BY <2>1, <2>2 DEF SwitchInit, ProgressInv, OutcomeInv
  <2> QED
    BY <2>1, <2>3, <2>4, <2>5 DEF SwitchInv, SwitchTypeOK
<1>2. SwitchInv /\ [SwitchNext]_switchVars => SwitchInv'
  BY NextFlags, NextDongle DEF SwitchInv, SwitchTypeOK
<1> QED
  BY <1>1, <1>2, PTL DEF SwitchSpec

\* The store keeps the vendor's package, and a switch that reports success
\* leaves a dongle that can be used (set_dongle_winusb).
THEOREM SwitchKeepsDongle == SwitchSpec => []DongleNotLost
<1>1. SwitchInv => DongleNotLost
  BY Detected DEF SwitchInv, SwitchTypeOK, StoreInv, OutcomeInv, DongleNotLost
<1> QED
  BY <1>1, SwitchInductive, PTL

\* A switch that reports success has switched (set_dongle_winusb,
\* find_winusb_infs).
THEOREM SwitchDoesWhatItSays == SwitchSpec => []OkMeansSwitched
<1>1. SwitchInv => OkMeansSwitched
  <2> SUFFICES ASSUME SwitchInv, report = "Ok", instance_id,
                      sw \in {"none", "report"}, node # "none",
                      want \/ "other" \notin store
               PROVE  detect_dongle_driver = Requested
    BY DEF OkMeansSwitched
  <2>1. node \in Services /\ want \in BOOLEAN
    BY DEF SwitchInv, SwitchTypeOK
  <2>2. IF want THEN node = "WinUSB" ELSE node = "BTHUSB"
    BY <2>1 DEF SwitchInv, StoreInv, OutcomeInv, Services
  <2> QED
    BY <2>1, <2>2, Detected DEF Requested
<1> QED
  BY <1>1, SwitchInductive, PTL
================================================================================
