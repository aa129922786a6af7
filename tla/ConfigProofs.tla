---------------------------- MODULE ConfigProofs ----------------------------
(***************************************************************************)
(* The store of ini.c for every file, hash function and INI_MINSIZE: its   *)
(* arrays stay in order, it is a map, and it ends up with the last entry   *)
(* of each key.  The configuration drives it as its specification says: no *)
(* value escapes the validation, and each comes from its proper source.    *)
(***************************************************************************)
EXTENDS Config, SequenceTheorems, TLAPS

(* The free slot that is found is the one after the last used one. *)
LEMMA FirstFree ==
    ASSUME StoreOK, NEW more \in Nat, num < size + more
    PROVE  LET keys == Extended(key, more)
               free == {i \in 1 .. size + more : keys[i] = Empty}
           IN  free # {} /\ First(free) = num + 1
<1> DEFINE keys == Extended(key, more)
           free == {i \in 1 .. size + more : keys[i] = Empty}
<1>1. size \in Nat /\ num \in Nat /\ num <= size
  BY DEF StoreOK
<1>2. \A i \in 1 .. size + more : keys[i] = Empty <=> i > num
  BY <1>1 DEF StoreOK, Extended
<1>3. free = {i \in 1 .. size + more : i > num}
  BY <1>2
<1> HIDE DEF free, keys
<1>4. num + 1 \in free /\ \A j \in free : num + 1 <= j
  BY <1>1, <1>3
<1>5. \A i \in free : (\A j \in free : i <= j) => i = num + 1
  BY <1>1, <1>3, <1>4
<1>6. First(free) = num + 1
  BY <1>4, <1>5 DEF First
<1> QED
  BY <1>4, <1>6 DEF free, keys

(* What ini_set does to the arrays: it changes the value of the one slot   *)
(* of the key, or uses the next slot.                                      *)
LEMMA SetCases ==
    ASSUME StoreOK, NEW k, NEW v, ini_set(k, v)
    PROVE  \/ \E i \in 1 .. num :
                 /\ key[i] = k
                 /\ val' = [val EXCEPT ![i] = v]
                 /\ UNCHANGED <<key, hash, num, size>>
           \/ /\ \A i \in 1 .. num : key[i] # k
              /\ num' = num + 1
              /\ size' \in Nat /\ size' >= size /\ num + 1 <= size'
              /\ key' = [i \in 1 .. size' |-> IF i = num + 1 THEN k
                                              ELSE IF i <= size THEN key[i] ELSE Empty]
              /\ val' = [i \in 1 .. size' |-> IF i = num + 1 THEN v
                                              ELSE IF i <= size THEN val[i] ELSE Empty]
              /\ hash' = [i \in 1 .. size' |-> IF i = num + 1 THEN Hash[k]
                                               ELSE IF i <= size THEN hash[i] ELSE Empty]
<1>1. size \in Nat /\ num \in Nat /\ num <= size
  BY DEF StoreOK
<1>2. ini_find(k) = {i \in 1 .. num : key[i] = k}
  <2>1. \A i \in 1 .. size : same_key(i, k) <=> i <= num /\ key[i] = k
    BY <1>1 DEF same_key, StoreOK
  <2> QED
    BY <1>1, <2>1 DEF ini_find
<1>3. CASE ini_find(k) # {}
  <2>1. PICK i \in 1 .. num : key[i] = k
    BY <1>2, <1>3
  <2>2. \A j \in ini_find(k) : j = i
    BY <1>2, <2>1 DEF StoreOK
  <2>3. i \in ini_find(k) /\ i <= i
    BY <1>1, <1>2, <2>1
  <2>4. First(ini_find(k)) = i
    BY <2>2, <2>3 DEF First
  <2>5. val' = [val EXCEPT ![i] = v] /\ UNCHANGED <<key, hash, num, size>>
    BY <1>3, <2>4 DEF ini_set
  <2> QED
    BY <2>1, <2>5
<1>4. CASE ini_find(k) = {}
  <2> DEFINE more == IF ini_full THEN INI_MINSIZE ELSE 0
             keys == Extended(key, more)
             free == {i \in 1 .. size + more : keys[i] = Empty}
             slot == IF free = {} THEN size + more + 1 ELSE First(free)
  <2>1. /\ size' = size + more
        /\ key' = [keys EXCEPT ![slot] = k]
        /\ val' = [Extended(val, more) EXCEPT ![slot] = v]
        /\ hash' = [Extended(hash, more) EXCEPT ![slot] = Hash[k]]
        /\ num' = num + 1
    BY <1>4 DEF ini_set, ini_add
  <2>2. more \in Nat /\ num < size + more
    BY <1>1, IniAssumption DEF ini_full
  <2> HIDE DEF more
  <2>3. slot = num + 1
    BY <2>2, FirstFree
  <2> HIDE DEF slot
  <2>4. size' \in Nat /\ size' >= size /\ num + 1 <= size'
    BY <1>1, <2>1, <2>2
  <2>5. \A i \in 1 .. num : key[i] # k
    BY <1>2, <1>4
  <2> QED
    BY <1>1, <2>1, <2>2, <2>3, <2>4, <2>5 DEF Extended
<1> QED
  BY <1>3, <1>4

(* The store stays in order. *)
LEMMA SetKeeps ==
    ASSUME StoreOK, NEW k, k # Empty, NEW v, ini_set(k, v)
    PROVE  StoreOK'
<1>1. size \in Nat /\ num \in Nat /\ num <= size
  BY DEF StoreOK
<1>2. ASSUME NEW i \in 1 .. num, key[i] = k, val' = [val EXCEPT ![i] = v],
             UNCHANGED <<key, hash, num, size>>
      PROVE  StoreOK'
  BY <1>2 DEF StoreOK
<1>3. ASSUME \A i \in 1 .. num : key[i] # k,
             num' = num + 1,
             size' \in Nat, size' >= size, num + 1 <= size',
             key' = [i \in 1 .. size' |-> IF i = num + 1 THEN k
                                          ELSE IF i <= size THEN key[i] ELSE Empty],
             val' = [i \in 1 .. size' |-> IF i = num + 1 THEN v
                                          ELSE IF i <= size THEN val[i] ELSE Empty],
             hash' = [i \in 1 .. size' |-> IF i = num + 1 THEN Hash[k]
                                           ELSE IF i <= size THEN hash[i] ELSE Empty]
      PROVE  StoreOK'
  <2>1. /\ size' \in Nat /\ num' \in 0 .. size'
        /\ DOMAIN key' = 1 .. size' /\ DOMAIN val' = 1 .. size' /\ DOMAIN hash' = 1 .. size'
    BY <1>1, <1>3
  <2>2. \A i \in 1 .. size' : i <= num' <=> key'[i] # Empty
    BY <1>1, <1>3 DEF StoreOK
  <2>3. \A i \in 1 .. num' : hash'[i] = Hash[key'[i]]
    BY <1>1, <1>3 DEF StoreOK
  <2>4. \A i, j \in 1 .. num' : key'[i] = key'[j] => i = j
    <3>1. \A i \in 1 .. num : key'[i] = key[i] /\ key'[num + 1] = k
      BY <1>1, <1>3
    <3>2. 1 .. num' = (1 .. num) \cup {num + 1}
      BY <1>1, <1>3
    <3>3. \A i, j \in 1 .. num : key[i] = key[j] => i = j
      BY DEF StoreOK
    <3>4. TAKE i, j \in 1 .. num'
    <3>5. key'[num + 1] = k
      BY <1>1, <1>3
    <3>6. \A l \in 1 .. num : key'[l] # key'[num + 1]
      BY <1>3, <3>1, <3>5
    <3>7. CASE i \in 1 .. num /\ j \in 1 .. num
      BY <3>1, <3>3, <3>7
    <3>8. CASE i = num + 1 \/ j = num + 1
      BY <3>2, <3>4, <3>6, <3>8
    <3> QED
      BY <3>2, <3>4, <3>7, <3>8
  <2> QED
    BY <2>1, <2>2, <2>3, <2>4 DEF StoreOK
<1> QED
  BY <1>2, <1>3, SetCases

(* A line changes the store by at most one ini_set, of a key that is not   *)
(* empty.                                                                  *)
LEMMA ParseSets ==
    ASSUME ini_parse_file
    PROVE  \/ UNCHANGED store
           \/ \E k, v : k # Empty /\ ini_set(k, v)
<1> DEFINE line == file[pos + 1]
           lines == Append(held, line)
           parts == Parts(lines)
<1>1. CASE line.cont
  BY <1>1 DEF ini_parse_file
<1>2. CASE ~ line.cont
  <2>1. ini_parse_line(lines)
    BY <1>2 DEF ini_parse_file
  <2>2. \/ ini_set(<<parts[1].name>>, Null)
        \/ ini_set(<<section, parts[1].name>>, value_text(parts))
        \/ UNCHANGED store
    BY <2>1 DEF ini_parse_line
  <2>3. <<parts[1].name>> # Empty /\ <<section, parts[1].name>> # Empty
    BY DEF Empty
  <2> QED
    BY <2>2, <2>3
<1> QED
  BY <1>1, <1>2

(* The store is in order and, once released, has no used slot. *)
StoreInv == StoreOK /\ NothingLeaks

(* The first slots are free. *)
LEMMA InitInv == Init => StoreInv
BY IniAssumption DEF Init, StoreInv, StoreOK, NothingLeaks, Empty

(* Every step keeps the store in order. *)
LEMMA NextInv == StoreInv /\ [Next]_vars => StoreInv'
<1> SUFFICES ASSUME StoreInv, [Next]_vars PROVE StoreInv'
  OBVIOUS
<1>1. CASE UNCHANGED <<store, pc>>
  BY <1>1 DEF StoreInv, StoreOK, NothingLeaks, store
<1>2. CASE ini_parse_file
  <2>1. pc' = "parse"
    BY <1>2 DEF ini_parse_file
  <2>2. StoreOK'
    BY <1>2, ParseSets, SetKeeps DEF StoreInv, StoreOK, store
  <2> QED
    BY <2>1, <2>2 DEF StoreInv, NothingLeaks
<1>3. CASE ini_parse_end
  BY <1>3 DEF ini_parse_end, StoreInv, StoreOK, NothingLeaks, store
<1>4. CASE ini_release \/ ini_init_fails
  BY <1>4 DEF ini_release, ini_init_fails, ini_free, ini_freed, StoreInv, StoreOK, NothingLeaks
<1> QED
  BY <1>1, <1>2, <1>3, <1>4 DEF Next, ini_over, vars

(* The arrays never overflow, whatever the file: the used slots are the    *)
(* first num ones, with their hashes and no key twice.                     *)
THEOREM StoreInOrder == Spec => []StoreOK
<1>1. StoreInv => StoreOK
  BY DEF StoreInv
<1> QED
  BY <1>1, InitInv, NextInv, PTL DEF Spec

(* ini_release, which frees num slots, frees all of them. *)
THEOREM NeverLeaks == Spec => []NothingLeaks
<1>1. StoreInv => NothingLeaks
  BY DEF StoreInv
<1> QED
  BY <1>1, InitInv, NextInv, PTL DEF Spec

(* What ini_get finds in a store that is in order: the value of the slot   *)
(* of the key, or nothing.                                                 *)
LEMMA Finds ==
    ASSUME StoreOK, NEW k
    PROVE  /\ \A i \in 1 .. num : key[i] = k => ini_get(k) = val[i]
           /\ (\A i \in 1 .. num : key[i] # k) => ini_get(k) = Null
<1> DEFINE found == {j \in 1 .. size : key[j] # Empty /\ hash[j] = Hash[k] /\ key[j] = k}
<1>1. ini_get(k) = IF found = {} THEN Null ELSE val[First(found)]
  BY DEF ini_get, same_key, First
<1>2. size \in Nat /\ num \in Nat /\ num <= size
  BY DEF StoreOK
<1>3. found = {j \in 1 .. num : key[j] = k}
  BY <1>2 DEF StoreOK
<1>4. \A i, j \in 1 .. num : key[i] = key[j] => i = j
  BY DEF StoreOK
<1> HIDE DEF found
<1>5. ASSUME NEW i \in 1 .. num, key[i] = k PROVE ini_get(k) = val[i]
  <2>1. i \in found /\ i <= i /\ \A j \in found : j = i
    BY <1>2, <1>3, <1>4, <1>5
  <2>2. First(found) = i
    BY <2>1 DEF First
  <2> QED
    BY <1>1, <2>1, <2>2
<1>6. ASSUME \A i \in 1 .. num : key[i] # k PROVE ini_get(k) = Null
  BY <1>1, <1>3, <1>6
<1> QED
  BY <1>5, <1>6

(* The same after a step. *)
LEMMA FindsNext ==
    ASSUME StoreOK', NEW k
    PROVE  /\ \A i \in 1 .. num' : key'[i] = k => ini_get(k)' = val'[i]
           /\ (\A i \in 1 .. num' : key'[i] # k) => ini_get(k)' = Null
<1> DEFINE found == {j \in 1 .. size' : key'[j] # Empty /\ hash'[j] = Hash[k] /\ key'[j] = k}
<1>1. ini_get(k)' = IF found = {} THEN Null ELSE val'[First(found)]
  BY DEF ini_get, same_key, First
<1>2. size' \in Nat /\ num' \in Nat /\ num' <= size'
  BY DEF StoreOK
<1>3. found = {j \in 1 .. num' : key'[j] = k}
  BY <1>2 DEF StoreOK
<1>4. \A i, j \in 1 .. num' : key'[i] = key'[j] => i = j
  BY DEF StoreOK
<1> HIDE DEF found
<1>5. ASSUME NEW i \in 1 .. num', key'[i] = k PROVE ini_get(k)' = val'[i]
  <2>1. i \in found /\ i <= i /\ \A j \in found : j = i
    BY <1>2, <1>3, <1>4, <1>5
  <2>2. First(found) = i
    BY <2>1 DEF First
  <2> QED
    BY <1>1, <2>1, <2>2
<1>6. ASSUME \A i \in 1 .. num' : key'[i] # k PROVE ini_get(k)' = Null
  BY <1>1, <1>3, <1>6
<1> QED
  BY <1>5, <1>6

(* ini_set changes what is found for no other key. *)
LEMMA SetOthers ==
    ASSUME StoreOK, NEW k, k # Empty, NEW v, ini_set(k, v), NEW j, j # k
    PROVE  ini_get(j)' = ini_get(j)
<1>1. StoreOK' /\ size \in Nat /\ num \in Nat /\ num <= size
  BY SetKeeps DEF StoreOK
<1>2. ASSUME NEW i \in 1 .. num, key[i] = k, val' = [val EXCEPT ![i] = v],
             UNCHANGED <<key, hash, num, size>>
      PROVE  ini_get(j)' = ini_get(j)
  <2>1. CASE \A l \in 1 .. num : key[l] # j
    BY <1>1, <1>2, <2>1, Finds, FindsNext
  <2>2. ASSUME NEW l \in 1 .. num, key[l] = j PROVE ini_get(j)' = ini_get(j)
    <3>1. l # i /\ DOMAIN val = 1 .. size /\ l \in 1 .. size
      BY <1>1, <1>2, <2>2 DEF StoreOK
    <3>2. val'[l] = val[l]
      BY <1>2, <3>1
    <3>3. ini_get(j) = val[l]
      BY <2>2, Finds
    <3>4. ini_get(j)' = val'[l]
      BY <1>1, <1>2, <2>2, FindsNext
    <3> QED
      BY <3>2, <3>3, <3>4
  <2> QED
    BY <2>1, <2>2
<1>3. ASSUME \A i \in 1 .. num : key[i] # k,
             num' = num + 1,
             size' \in Nat, size' >= size, num + 1 <= size',
             key' = [i \in 1 .. size' |-> IF i = num + 1 THEN k
                                          ELSE IF i <= size THEN key[i] ELSE Empty],
             val' = [i \in 1 .. size' |-> IF i = num + 1 THEN v
                                          ELSE IF i <= size THEN val[i] ELSE Empty]
      PROVE  ini_get(j)' = ini_get(j)
  <2>1. \A l \in 1 .. num : l \in 1 .. num' /\ key'[l] = key[l] /\ val'[l] = val[l]
    BY <1>1, <1>3
  <2>2. key'[num + 1] = k
    BY <1>1, <1>3
  <2>3. CASE \A l \in 1 .. num : key[l] # j
    <3>1. \A l \in 1 .. num' : l \in 1 .. num \/ l = num + 1
      BY <1>1, <1>3
    <3>2. \A l \in 1 .. num' : key'[l] # j
      BY <2>1, <2>2, <2>3, <3>1
    <3>3. ini_get(j) = Null
      BY <2>3, Finds
    <3>4. ini_get(j)' = Null
      BY <1>1, <3>2, FindsNext
    <3> QED
      BY <3>3, <3>4
  <2>4. ASSUME NEW l \in 1 .. num, key[l] = j PROVE ini_get(j)' = ini_get(j)
    <3>1. ini_get(j) = val[l]
      BY <2>4, Finds
    <3>2. ini_get(j)' = val'[l]
      BY <1>1, <2>1, <2>4, FindsNext
    <3> QED
      BY <2>1, <3>1, <3>2
  <2> QED
    BY <2>3, <2>4
<1> QED
  BY <1>2, <1>3, SetCases

(* Nothing is found in the first store. *)
LEMMA InitMap == Init => Map!Init
<1> SUFFICES ASSUME Init PROVE Map!Init
  OBVIOUS
<1>1. StoreOK /\ num = 0
  BY InitInv DEF StoreInv, Init
<1>2. \A k \in IniKeys : ini_get(k) = Null
  BY <1>1, Finds
<1> QED
  BY <1>2 DEF Map!Init, Map!Nothing, found_values

(* A line sets one key, a release clears, other steps leave the map alone. *)
LEMMA NextMap == StoreInv /\ StoreInv' /\ [Next]_vars => [Map!Next]_found_values
<1> SUFFICES ASSUME StoreInv, StoreInv', [Next]_vars PROVE [Map!Next]_found_values
  OBVIOUS
<1> USE DEF StoreInv
<1>1. ASSUME UNCHANGED store PROVE [Map!Next]_found_values
  <2>1. \A k \in IniKeys : ini_get(k)' = ini_get(k)
    BY <1>1 DEF store, ini_get, same_key
  <2> QED
    BY <2>1 DEF found_values
<1>2. CASE ini_parse_file
  <2>1. ASSUME NEW k, NEW v, k # Empty, ini_set(k, v) PROVE [Map!Next]_found_values
    <3>1. \A j \in IniKeys : j # k => ini_get(j)' = ini_get(j)
      BY <2>1, SetOthers
    <3>2. CASE k \notin IniKeys
      BY <3>1, <3>2 DEF found_values
    <3>3. CASE k \in IniKeys
      BY <3>1, <3>3 DEF found_values, Map!Next, Map!set
    <3> QED
      BY <3>2, <3>3
  <2> QED
    BY <1>1, <1>2, <2>1, ParseSets
<1>3. CASE ini_release \/ ini_init_fails
  <2>1. num' = 0
    BY <1>3 DEF ini_release, ini_init_fails, ini_free
  <2>2. \A k \in IniKeys : ini_get(k)' = Null
    BY <2>1, FindsNext
  <2> QED
    BY <2>2 DEF found_values, Map!Next, Map!clear, Map!Nothing
<1> QED
  BY <1>1, <1>2, <1>3 DEF Next, ini_parse_end, ini_over, vars

(* The store of ini.c is a map for its readers, for every file, hash       *)
(* function and INI_MINSIZE: no collision and no growth of the arrays      *)
(* changes the value of a key that the line does not set.                  *)
THEOREM MapImplemented == Spec => ImplementsMap
<1> QED
  BY InitInv, NextInv, InitMap, NextMap, PTL DEF Spec, ImplementsMap, Map!Spec

-----------------------------------------------------------------------------
(* The entries of the file *)

(* The greatest element of a set, when there is one. *)
LEMMA LastIs ==
    ASSUME NEW S \in SUBSET Int, NEW m \in S, \A j \in S : j <= m
    PROVE  LastOf(S) = m
<1>1. \A i \in S : (\A j \in S : j <= i) => i = m
  OBVIOUS
<1> QED
  BY <1>1 DEF LastOf

(* An entry that begins at b and has its first line without a backslash at *)
(* e consists of the lines b to e, and no other begins in it.              *)
LEMMA EntryEnds ==
    ASSUME file \in Seq(Line), NEW b \in 1 .. Len(file), NEW e \in b .. Len(file),
           \A l \in b .. e - 1 : file[l].cont, ~ file[e].cont
    PROVE  /\ EndsAt(b) # {} /\ Entry(b) = Parts(SubSeq(file, b, e))
           /\ \A i \in b + 1 .. e : ~ Begins(i)
<1>1. Len(file) \in Nat /\ b \in Nat /\ e \in Nat
  OBVIOUS
<1>2. e \in EndsAt(b) /\ \A j \in EndsAt(b) : e <= j
  BY <1>1 DEF EndsAt
<1>3. \A i \in EndsAt(b) : i \in Int
  BY <1>1 DEF EndsAt
<1>4. \A i \in EndsAt(b) : (\A j \in EndsAt(b) : i <= j) => i = e
  BY <1>1, <1>2, <1>3
<1>5. First(EndsAt(b)) = e
  BY <1>2, <1>4 DEF First
<1>6. \A i \in b + 1 .. e : ~ Begins(i)
  <2>1. \A i \in b + 1 .. e : i - 1 \in b .. e - 1 /\ i # 1
    BY <1>1
  <2> QED
    BY <2>1 DEF Begins
<1> QED
  BY <1>2, <1>5, <1>6 DEF Entry

(* The lines of the entries that have been read completely. *)
done == pos - Len(held)

(* The complete entries that set a key. *)
SetBy(k) == {i \in 1 .. done : Defines(i, k[1], k[2])}

PairKeys == {q \in IniKeys : Len(q) = 2}

(* Where ini_parse_file is between two lines: the lines held are those of  *)
(* the entry that is being read, and all end in a backslash.               *)
Reading ==
    /\ file \in Files
    /\ pos \in 0 .. Len(file)
    /\ held \in Seq(Line) /\ Len(held) <= pos
    /\ \A i \in 1 .. Len(held) : held[i] = file[done + i] /\ held[i].cont
    /\ Begins(done + 1)

(* The section is the last one that the complete entries name, and each    *)
(* key has the text of the last of them that sets it.                      *)
LinesStored ==
    /\ Heading(done + 1) # {} => section = Entry(LastOf(Heading(done + 1)))[1].name
    /\ \A k \in PairKeys : SetBy(k) # {} =>
          ini_get(k) \in Texts /\ ini_get(k) = value_text(Entry(LastOf(SetBy(k))))
    /\ Headed => \A k \in PairKeys : SetBy(k) = {} => ini_get(k) = Null

(* The lines that are parsed together are an entry of the file. *)
LEMMA EntryRead ==
    ASSUME Reading, pos < Len(file), ~ file[pos + 1].cont
    PROVE  LET b == done + 1
               lines == Append(held, file[pos + 1])
           IN  /\ b \in 1 .. Len(file) /\ pos + 1 \in b .. Len(file)
               /\ EndsAt(b) # {} /\ Entry(b) = Parts(lines)
               /\ \A i \in b + 1 .. pos + 1 : ~ Begins(i)
               /\ Parts(lines) # << >> /\ Parts(lines)[1].kind = "value" =>
                     value_text(Parts(lines)) \in Texts
<1> DEFINE b == done + 1
           e == pos + 1
           n == Len(held)
           lines == Append(held, file[e])
<1>1. /\ file \in Seq(Line) /\ Len(file) \in Nat /\ pos \in Nat /\ n \in Nat /\ n <= pos
      /\ held \in Seq(Line)
  BY IniAssumption DEF Reading
<1>2. /\ b = pos - n + 1 /\ b \in 1 .. Len(file) /\ e \in b .. Len(file)
      /\ e \in 1 .. Len(file)
  BY <1>1 DEF done
<1>3. \A l \in b .. e - 1 : l - done \in 1 .. n /\ done + (l - done) = l
  BY <1>1, <1>2 DEF done
<1>4. \A l \in b .. e - 1 : file[l].cont
  BY <1>3 DEF Reading
<1>5. lines = SubSeq(file, b, e)
  <2>1. file[e] \in Line
    BY <1>1, <1>2
  <2>2. /\ lines \in Seq(Line) /\ Len(lines) = n + 1
        /\ \A i \in 1 .. n : lines[i] = held[i]
        /\ lines[n + 1] = file[e]
    BY <1>1, <2>1
  <2>3. /\ SubSeq(file, b, e) \in Seq(Line) /\ Len(SubSeq(file, b, e)) = n + 1
        /\ \A i \in 1 .. n + 1 : SubSeq(file, b, e)[i] = file[b + i - 1]
    BY <1>1, <1>2
  <2>4. \A i \in 1 .. n : lines[i] = file[done + i] /\ done + i = b + i - 1
    BY <1>1, <1>2, <2>2 DEF Reading, done
  <2>5. b + (n + 1) - 1 = e
    BY <1>1, <1>2
  <2>6. ASSUME NEW i \in 1 .. n + 1 PROVE lines[i] = SubSeq(file, b, e)[i]
    <3>1. CASE i = n + 1
      BY <1>1, <2>2, <2>3, <2>5, <3>1
    <3>2. CASE i # n + 1
      <4>1. i \in 1 .. n
        BY <1>1, <3>2
      <4>2. lines[i] = file[done + i] /\ done + i = b + i - 1
        BY <2>4, <4>1
      <4>3. SubSeq(file, b, e)[i] = file[b + i - 1]
        BY <2>3
      <4> HIDE DEF b, lines
      <4> QED
        BY <4>2, <4>3
    <3> QED
      BY <3>1, <3>2
  <2> HIDE DEF lines
  <2> QED
    BY <1>1, <2>2, <2>3, <2>6, SeqEqual
<1>6. /\ EndsAt(b) # {} /\ Entry(b) = Parts(SubSeq(file, b, e))
      /\ \A i \in b + 1 .. e : ~ Begins(i)
  BY <1>1, <1>2, <1>4, EntryEnds
<1>7. ASSUME Parts(lines) # << >>, Parts(lines)[1].kind = "value"
      PROVE  value_text(Parts(lines)) \in Texts
  <2>1. file \in Files /\ b \in DOMAIN file /\ e \in DOMAIN file
    BY <1>1, <1>2 DEF Reading
  <2>2. Parts(lines) = Parts(SubSeq(file, b, e))
    BY <1>5
  <2> HIDE DEF b, e, lines
  <2> QED
    BY <1>4, <1>7, <2>1, <2>2, ConfigAssumption
<1> QED
  BY <1>2, <1>5, <1>6, <1>7

(* What the file says does not change while it is read. *)
LEMMA FileFixed ==
    ASSUME file' = file
    PROVE  /\ \A i : Begins(i)' <=> Begins(i)
           /\ \A i : Entry(i)' = Entry(i)
           /\ \A i : Heading(i)' = Heading(i)
           /\ \A i, s, k : Defines(i, s, k)' <=> Defines(i, s, k)
           /\ Headed' <=> Headed
<1>1. \A i : (Begins(i)' <=> Begins(i)) /\ EndsAt(i)' = EndsAt(i)
  BY DEF Begins, EndsAt
<1>2. \A i : Entry(i)' = Entry(i)
  BY <1>1 DEF Entry
<1>3. \A i, kind : Opens(i, kind)' <=> Opens(i, kind)
  BY <1>1, <1>2 DEF Opens
<1>4. \A i : Heading(i)' = Heading(i)
  BY <1>3 DEF Heading
<1>5. \A i, s, k : Defines(i, s, k)' <=> Defines(i, s, k)
  BY <1>2, <1>3, <1>4 DEF Defines
<1>6. Headed' <=> Headed
  BY <1>3, <1>4 DEF Headed
<1> QED
  BY <1>1, <1>2, <1>4, <1>5, <1>6

(* A continued line only waits. *)
LEMMA HeldKeeps ==
    ASSUME Reading, LinesStored, ini_parse_file, file[pos + 1].cont
    PROVE  Reading' /\ LinesStored'
<1>1. /\ pos < Len(file) /\ pos' = pos + 1 /\ held' = Append(held, file[pos + 1])
      /\ UNCHANGED <<store, section, file>>
  BY DEF ini_parse_file
<1>2. /\ file \in Seq(Line) /\ Len(file) \in Nat /\ pos \in Nat /\ held \in Seq(Line)
      /\ Len(held) \in Nat /\ Len(held) <= pos
  BY IniAssumption DEF Reading
<1>3. file[pos + 1] \in Line
  BY <1>1, <1>2
<1>4. /\ held' \in Seq(Line) /\ Len(held') = Len(held) + 1
      /\ \A i \in 1 .. Len(held) : held'[i] = held[i]
      /\ held'[Len(held) + 1] = file[pos + 1]
  BY <1>1, <1>2, <1>3
<1>5. done' = done /\ done + (Len(held) + 1) = pos + 1
  BY <1>1, <1>2, <1>4 DEF done
<1>6. Reading'
  <2>1. ASSUME NEW i \in 1 .. Len(held')
        PROVE  held'[i] = file[done + i] /\ held'[i].cont
    <3>1. CASE i = Len(held) + 1
      BY <1>4, <1>5, <3>1
    <3>2. CASE i # Len(held) + 1
      <4>1. i \in 1 .. Len(held)
        BY <1>2, <1>4, <3>2
      <4> QED
        BY <1>4, <4>1 DEF Reading
    <3> QED
      BY <3>1, <3>2
  <2>2. Begins(done + 1)'
    BY <1>1, <1>5 DEF Reading, Begins
  <2> QED
    BY <1>1, <1>2, <1>4, <1>5, <2>1, <2>2 DEF Reading
<1>7. LinesStored'
  <2>1. \A k \in PairKeys : SetBy(k)' = SetBy(k)
    BY <1>1, <1>5, FileFixed DEF SetBy
  <2>2. \A k \in PairKeys : ini_get(k)' = ini_get(k)
    BY <1>1 DEF store, ini_get, same_key
  <2> QED
    BY <1>1, <1>5, <2>1, <2>2, FileFixed DEF LinesStored
<1> QED
  BY <1>6, <1>7

(* ini_set sets the value of its key. *)
LEMMA SetGets ==
    ASSUME StoreOK, NEW k, k # Empty, NEW v, ini_set(k, v)
    PROVE  ini_get(k)' = v
<1>1. StoreOK' /\ size \in Nat /\ num \in Nat /\ num <= size
  BY SetKeeps DEF StoreOK
<1>2. ASSUME NEW i \in 1 .. num, key[i] = k, val' = [val EXCEPT ![i] = v],
             UNCHANGED <<key, hash, num, size>>
      PROVE  ini_get(k)' = v
  <2>1. DOMAIN val = 1 .. size /\ i \in 1 .. size
    BY <1>1 DEF StoreOK
  <2>2. val'[i] = v
    BY <1>2, <2>1
  <2> QED
    BY <1>1, <1>2, <2>2, FindsNext
<1>3. ASSUME num' = num + 1, size' \in Nat, num + 1 <= size',
             key' = [i \in 1 .. size' |-> IF i = num + 1 THEN k
                                          ELSE IF i <= size THEN key[i] ELSE Empty],
             val' = [i \in 1 .. size' |-> IF i = num + 1 THEN v
                                          ELSE IF i <= size THEN val[i] ELSE Empty]
      PROVE  ini_get(k)' = v
  <2>1. num + 1 \in 1 .. num' /\ num + 1 \in 1 .. size'
    BY <1>1, <1>3
  <2>2. key'[num + 1] = k /\ val'[num + 1] = v
    BY <1>3, <2>1
  <2> QED
    BY <1>1, <2>1, <2>2, FindsNext
<1> QED
  BY <1>2, <1>3, SetCases

(* A key of two parts is the pair of them. *)
LEMMA Pairs == \A k \in PairKeys : k = <<k[1], k[2]>> /\ k # Empty
<1> TAKE k \in PairKeys
<1>1. k \in Seq(STRING) /\ Len(k) = 2
  BY IniAssumption DEF PairKeys
<1> QED
  BY <1>1 DEF Empty

(* An entry that is complete is stored: a heading as the section, a value  *)
(* under the section of the last heading.                                  *)
LEMMA EntryKeeps ==
    ASSUME StoreOK, Reading, LinesStored, ini_parse_file, ~ file[pos + 1].cont
    PROVE  Reading' /\ LinesStored'
<1> DEFINE b == done + 1
           e == pos + 1
           lines == Append(held, file[e])
           parts == Parts(lines)
<1>1. /\ pos < Len(file) /\ pos' = e /\ held' = << >> /\ file' = file
      /\ ini_parse_line(lines)
  BY DEF ini_parse_file
<1>2. /\ file \in Seq(Line) /\ Len(file) \in Nat /\ pos \in Nat /\ Len(held) \in Nat
      /\ Len(held) <= pos
  BY IniAssumption DEF Reading
<1>3. /\ b \in 1 .. Len(file) /\ e \in b .. Len(file)
      /\ EndsAt(b) # {} /\ Entry(b) = parts
      /\ \A i \in b + 1 .. e : ~ Begins(i)
      /\ parts # << >> /\ parts[1].kind = "value" => value_text(parts) \in Texts
  BY <1>1, EntryRead
<1>4. done \in Nat /\ b \in Nat /\ e \in Nat /\ done' = e
  BY <1>1, <1>2 DEF done
<1>5. Reading'
  <2>1. Begins(done + 1)'
    BY <1>1, <1>2, <1>4 DEF Begins
  <2>2. held' \in Seq(Line) /\ Len(held') = 0
    BY <1>1
  <2> QED
    BY <1>1, <1>2, <1>3, <1>4, <2>1, <2>2 DEF Reading
<1> HIDE DEF lines, parts
<1>6. \A kind : Opens(b, kind) <=> parts # << >> /\ parts[1].kind = kind
  BY <1>3 DEF Opens, Reading
<1>7. \A i \in 1 .. e : i \in 1 .. done \/ i = b \/ i \in b + 1 .. e
  BY <1>4
<1>8. \A i \in b + 1 .. e : \A kind : ~ Opens(i, kind)
  BY <1>3 DEF Opens
<1>9. Heading(e + 1) = Heading(b) \cup {i \in {b} : Opens(b, "section")}
  <2>1. Heading(e + 1) = {h \in 1 .. e : Opens(h, "section")}
    BY <1>4 DEF Heading
  <2>2. Heading(b) = {h \in 1 .. done : Opens(h, "section")}
    BY <1>4 DEF Heading
  <2>3. 1 .. done \subseteq 1 .. e /\ b \in 1 .. e
    BY <1>3, <1>4
  <2> QED
    BY <1>7, <1>8, <2>1, <2>2, <2>3
<1>10. Heading(done + 1)' = Heading(e + 1)
  BY <1>1, <1>4, FileFixed
<1>11. \A k : SetBy(k)' = SetBy(k) \cup {i \in {b} : Defines(b, k[1], k[2])}
  <2>1. TAKE k
  <2>2. SetBy(k)' = {i \in 1 .. e : Defines(i, k[1], k[2])}
    BY <1>1, <1>4, FileFixed DEF SetBy
  <2>3. 1 .. done \subseteq 1 .. e /\ b \in 1 .. e
    BY <1>3, <1>4
  <2>4. \A i \in b + 1 .. e : ~ Defines(i, k[1], k[2])
    BY <1>8 DEF Defines
  <2> QED
    BY <1>7, <2>2, <2>3, <2>4 DEF SetBy
<1>12. /\ \A k : SetBy(k) \in SUBSET Int /\ \A i \in SetBy(k) : i <= b
       /\ Heading(b) \in SUBSET Int /\ \A i \in Heading(b) : i <= b
  BY <1>4 DEF SetBy, Heading
<1>13. \A k : Defines(b, k[1], k[2]) => LastOf(SetBy(k)') = b
  <2>1. TAKE k
  <2>2. HAVE Defines(b, k[1], k[2])
  <2>3. SetBy(k)' \in SUBSET Int /\ b \in SetBy(k)' /\ \A i \in SetBy(k)' : i <= b
    BY <1>4, <1>11, <1>12, <2>2
  <2> QED
    BY <2>3, LastIs
<1>14. \A k : ~ Defines(b, k[1], k[2]) => SetBy(k)' = SetBy(k)
  BY <1>11
<1>15. (\A i : Entry(i)' = Entry(i)) /\ (Headed' <=> Headed)
  BY <1>1, FileFixed
<1> DEFINE kind == IF parts = << >> THEN "empty" ELSE parts[1].kind
<1>16. CASE kind = "section" /\ section' = parts[1].name /\ ini_set(<<parts[1].name>>, Null)
  <2>1. parts # << >> /\ parts[1].kind = "section"
    BY <1>16
  <2>2. Opens(b, "section") /\ ~ Opens(b, "value")
    BY <1>6, <2>1
  <2>3. LastOf(Heading(e + 1)) = b
    <3>1. /\ Heading(e + 1) \in SUBSET Int /\ b \in Heading(e + 1)
          /\ \A i \in Heading(e + 1) : i <= b
      BY <1>4, <1>9, <1>12, <2>2
    <3> QED
      BY <3>1, LastIs
  <2>4. \A k : SetBy(k)' = SetBy(k)
    BY <1>14, <2>2 DEF Defines
  <2>5. \A k \in PairKeys : ini_get(k)' = ini_get(k)
    <3>1. TAKE k \in PairKeys
    <3>2. k # <<parts[1].name>> /\ <<parts[1].name>> # Empty
      BY Pairs DEF Empty, PairKeys
    <3> QED
      BY <1>16, <3>2, SetOthers
  <2>6. section' = Entry(LastOf(Heading(done + 1)'))[1].name
    BY <1>3, <1>10, <1>16, <2>3
  <2> QED
    BY <1>5, <1>10, <1>15, <2>4, <2>5, <2>6 DEF LinesStored
<1>17. CASE /\ kind = "value" /\ section' = section
            /\ ini_set(<<section, parts[1].name>>, value_text(parts))
  <2> DEFINE q == <<section, parts[1].name>>
  <2>1. parts # << >> /\ parts[1].kind = "value"
    BY <1>17
  <2>2. Opens(b, "value") /\ ~ Opens(b, "section")
    BY <1>6, <2>1
  <2>3. Heading(e + 1) = Heading(b)
    BY <1>9, <2>2
  <2>4. Heading(b) # {} => section = Entry(LastOf(Heading(b)))[1].name
    BY DEF LinesStored
  <2>5. q # Empty
    BY DEF Empty
  <2>6. \A k : ini_get(k)' = IF k = q THEN value_text(parts) ELSE ini_get(k)
    <3>1. TAKE k
    <3>2. CASE k = q
      <4>1. k # Empty /\ ini_set(k, value_text(parts))
        BY <1>17, <2>5, <3>2
      <4>2. ini_get(k)' = value_text(parts)
        BY <4>1, SetGets
      <4> QED
        BY <3>2, <4>2
    <3>3. CASE k # q
      BY <1>17, <2>5, <3>3, SetOthers
    <3> QED
      BY <3>2, <3>3
  <2>7. ASSUME NEW k \in PairKeys, Heading(b) # {} PROVE Defines(b, k[1], k[2]) <=> k = q
    <3>1. Defines(b, k[1], k[2]) <=> parts[1].name = k[2] /\ section = k[1]
      BY <1>3, <2>2, <2>4, <2>7 DEF Defines
    <3>2. k = <<k[1], k[2]>>
      BY Pairs
    <3> QED
      BY <3>1, <3>2
  <2>8. ASSUME NEW k \in PairKeys, Heading(b) = {} PROVE SetBy(k) = {} /\ SetBy(k)' = {}
    <3>1. ASSUME NEW i \in 1 .. done PROVE Heading(i) = {}
      <4>1. 1 .. i - 1 \subseteq 1 .. b - 1
        BY <1>4
      <4> QED
        BY <2>8, <4>1 DEF Heading
    <3>2. \A i \in 1 .. done : ~ Defines(i, k[1], k[2])
      BY <3>1 DEF Defines
    <3>3. ~ Defines(b, k[1], k[2])
      BY <2>8 DEF Defines
    <3> QED
      BY <1>14, <3>2, <3>3 DEF SetBy
  <2>9. Heading(b) = {} => ~ Headed
    BY <1>3, <2>2 DEF Headed
  <2>10. ASSUME NEW k \in PairKeys, SetBy(k)' # {}
         PROVE  /\ ini_get(k)' \in Texts
                /\ ini_get(k)' = value_text(Entry(LastOf(SetBy(k)')))
    <3>1. Heading(b) # {}
      BY <2>8, <2>10
    <3>2. CASE k = q
      BY <1>3, <1>13, <2>1, <2>6, <2>7, <3>1, <3>2
    <3>3. CASE k # q
      <4>1. SetBy(k)' = SetBy(k) /\ ini_get(k)' = ini_get(k)
        BY <1>14, <2>6, <2>7, <3>1, <3>3
      <4> QED
        BY <2>10, <4>1 DEF LinesStored
    <3> QED
      BY <3>2, <3>3
  <2>11. ASSUME Headed, NEW k \in PairKeys, SetBy(k)' = {} PROVE ini_get(k)' = Null
    <3>1. Heading(b) # {}
      BY <2>9, <2>11
    <3>2. k # q /\ SetBy(k) = {}
      BY <1>11, <2>7, <2>11, <3>1
    <3> QED
      BY <2>6, <2>11, <3>2 DEF LinesStored
  <2>12. Heading(done + 1)' # {} => section' = Entry(LastOf(Heading(done + 1)'))[1].name
    BY <1>10, <1>17, <2>3, <2>4
  <2> QED
    BY <1>5, <1>15, <2>10, <2>11, <2>12 DEF LinesStored
<1>18. CASE kind \in {"empty", "comment", "error"} /\ UNCHANGED <<store, section>>
  <2>1. ~ Opens(b, "value") /\ ~ Opens(b, "section")
    BY <1>6, <1>18
  <2>2. Heading(e + 1) = Heading(b)
    BY <1>9, <2>1
  <2>3. \A k : SetBy(k)' = SetBy(k)
    BY <1>14, <2>1 DEF Defines
  <2>4. \A k \in PairKeys : ini_get(k)' = ini_get(k)
    BY <1>18 DEF store, ini_get, same_key
  <2>5. Heading(done + 1)' # {} => section' = Entry(LastOf(Heading(done + 1)'))[1].name
    BY <1>10, <1>18, <2>2 DEF LinesStored
  <2> QED
    BY <1>5, <1>15, <2>3, <2>4, <2>5 DEF LinesStored
<1> QED
  BY <1>1, <1>16, <1>17, <1>18 DEF ini_parse_line, ini_section_name, parts

(* At the end of the file every entry has been read: a line that still     *)
(* waits sets nothing.                                                     *)
LEMMA AllRead ==
    ASSUME Reading, pos = Len(file)
    PROVE  \A k : Setting(k) = SetBy(k)
<1>1. /\ file \in Seq(Line) /\ Len(file) \in Nat /\ pos \in Nat /\ Len(held) \in Nat
      /\ Len(held) <= pos
  BY IniAssumption DEF Reading
<1>2. done \in Nat /\ done <= Len(file)
  BY <1>1 DEF done
<1>3. \A l \in done + 1 .. Len(file) : l - done \in 1 .. Len(held) /\ done + (l - done) = l
  BY <1>1, <1>2 DEF done
<1>4. \A l \in done + 1 .. Len(file) : file[l].cont
  BY <1>3 DEF Reading
<1>5. ASSUME NEW i \in done + 1 .. Len(file) PROVE EndsAt(i) = {}
  <2>1. \A j \in i .. Len(file) : j \in done + 1 .. Len(file)
    BY <1>2
  <2> QED
    BY <1>4, <2>1 DEF EndsAt
<1>6. \A i \in done + 1 .. Len(file) : \A s, k : ~ Defines(i, s, k)
  BY <1>5 DEF Defines, Opens
<1>7. /\ \A i \in 1 .. Len(file) : i \in 1 .. done \/ i \in done + 1 .. Len(file)
      /\ 1 .. done \subseteq 1 .. Len(file)
  BY <1>2
<1> QED
  BY <1>6, <1>7 DEF Setting, SetBy

(* While the store is not released, it holds what has been read. *)
ParseInv ==
    /\ pc \in {"parse", "parsed", "released"}
    /\ pc # "released" => Reading /\ LinesStored
    /\ pc = "parsed" => pos = Len(file)

LEMMA ParseInit == Init => ParseInv
<1> SUFFICES ASSUME Init PROVE ParseInv
  OBVIOUS
<1>1. StoreOK /\ num = 0 /\ pos = 0 /\ held = << >> /\ file \in Files /\ pc = "parse"
  BY InitInv DEF StoreInv, Init
<1>2. file \in Seq(Line) /\ Len(file) \in Nat
  BY <1>1, IniAssumption
<1>3. done = 0
  <2>1. Len(held) = 0 /\ pos = 0
    BY <1>1
  <2> QED
    BY <2>1 DEF done
<1>4. Reading
  <2>1. held \in Seq(Line) /\ Len(held) = 0 /\ pos \in 0 .. Len(file)
    BY <1>1, <1>2
  <2>2. Begins(done + 1)
    BY <1>3 DEF Begins
  <2> QED
    BY <1>1, <2>1, <2>2 DEF Reading
<1>5. Heading(done + 1) = {} /\ \A k : SetBy(k) = {}
  BY <1>3 DEF Heading, SetBy
<1>6. \A k \in PairKeys : ini_get(k) = Null
  BY <1>1, Finds
<1> QED
  BY <1>1, <1>4, <1>5, <1>6 DEF ParseInv, LinesStored

LEMMA ParseNext == StoreInv /\ ParseInv /\ [Next]_vars => ParseInv'
<1> SUFFICES ASSUME StoreInv, ParseInv, [Next]_vars PROVE ParseInv'
  OBVIOUS
<1>1. ASSUME UNCHANGED <<store, file, pos, held, section>>, Reading, LinesStored
      PROVE  Reading' /\ LinesStored'
  <2>1. done' = done /\ \A k : SetBy(k)' = SetBy(k)
    BY <1>1, FileFixed DEF done, SetBy
  <2>2. \A k \in PairKeys : ini_get(k)' = ini_get(k)
    BY <1>1 DEF store, ini_get, same_key
  <2>3. Begins(done + 1)' /\ Heading(done + 1)' = Heading(done + 1)
    BY <1>1, <2>1, FileFixed DEF Reading, Begins
  <2>4. Reading'
    BY <1>1, <2>1, <2>3 DEF Reading
  <2>5. (\A i : Entry(i)' = Entry(i)) /\ (Headed' <=> Headed)
    BY <1>1, FileFixed
  <2> QED
    BY <1>1, <2>1, <2>2, <2>3, <2>4, <2>5 DEF LinesStored
<1>2. CASE ini_parse_file
  <2>1. pc = "parse" /\ pc' = "parse"
    BY <1>2 DEF ini_parse_file
  <2>2. Reading' /\ LinesStored'
    BY <1>2, <2>1, HeldKeeps, EntryKeeps DEF ParseInv, StoreInv
  <2> QED
    BY <2>1, <2>2 DEF ParseInv
<1>3. CASE ini_parse_end
  BY <1>1, <1>3 DEF ini_parse_end, ParseInv
<1>4. CASE ini_release \/ ini_init_fails
  BY <1>4 DEF ini_release, ini_init_fails, ParseInv
<1>5. CASE UNCHANGED vars
  BY <1>1, <1>5 DEF vars, ParseInv
<1> QED
  BY <1>2, <1>3, <1>4, <1>5 DEF Next, ini_over

(* For all files, whatever is continued, repeated or split over several    *)
(* sections of the same name: what ini_findkey finds is the text of the    *)
(* last entry that sets the key in its section.                            *)
THEOREM LastEntryWins == Spec => []LastLineWins
<1>1. ParseInv => LastLineWins
  <2> SUFFICES ASSUME ParseInv, pc = "parsed", NEW k \in PairKeys, Setting(k) # {}
               PROVE  ini_get(k) = LastText(k)
    BY DEF LastLineWins, PairKeys
  <2>1. Reading /\ LinesStored /\ pos = Len(file)
    BY DEF ParseInv
  <2>2. Setting(k) = SetBy(k)
    BY <2>1, AllRead
  <2> QED
    BY <2>1, <2>2 DEF LinesStored, LastText
<1> QED
  BY <1>1, InitInv, NextInv, ParseInit, ParseNext, PTL DEF Spec

-----------------------------------------------------------------------------
(* Every step of main up to the event loop is a step of the parser or      *)
(* leaves it alone: what is proved of Spec holds for the configuration.    *)
THEOREM ConfigParses == ConfigSpec => Spec
<1>1. ConfigInit => Init
  BY DEF ConfigInit
<1>2. [ConfigNext]_<<vars, configVars>> => [Next]_vars
  <2> SUFFICES ASSUME [ConfigNext]_<<vars, configVars>> PROVE [Next]_vars
    OBVIOUS
  <2>1. CASE UNCHANGED <<vars, configVars>>
    BY <2>1
  <2>2. ASSUME NEW o \in Options, sanji_get_cmdline_options(o) PROVE [Next]_vars
    BY <2>2 DEF sanji_get_cmdline_options
  <2>3. CASE open_config_file
    BY <2>3 DEF open_config_file, Next
  <2>4. CASE parse_config_file
    BY <2>4 DEF parse_config_file, Next
  <2>5. CASE sanji_load_config_file
    BY <2>5 DEF sanji_load_config_file, Next
  <2>6. CASE sanji_validate_configs \/ sanji_userdata_init \/ main_goes_on
    BY <2>6 DEF sanji_validate_configs, sanji_userdata_init, main_goes_on
  <2> QED
    BY <2>1, <2>2, <2>3, <2>4, <2>5, <2>6 DEF ConfigNext
<1> QED
  BY <1>1, <1>2, PTL DEF ConfigSpec, Spec

(* Why StartsValid holds: the host fits at all times, since options and    *)
(* file are tested one by one, and the rest is in range from the           *)
(* validation on, since nothing is set after it.                           *)
RangeInv ==
    /\ DOMAIN config = Keys
    /\ Fits(config["host"])
    /\ stage \in {"userdata", "ready"} => Valid(config)

(* A host that does not fit is refused from an option and from the file. *)
LEMMA RangeKept == RangeInv /\ [ConfigNext]_<<vars, configVars>> => RangeInv'
<1> SUFFICES ASSUME RangeInv, [ConfigNext]_<<vars, configVars>> PROVE RangeInv'
  OBVIOUS
<1>1. "host" \in Keys /\ "host" \in FileKeys /\ "host" \notin Numbers /\ "host" \notin Switches
  BY DEF Keys, FileKeys, Numbers, Switches
<1>2. CASE UNCHANGED <<stage, config>>
  BY <1>2 DEF RangeInv
<1>3. ASSUME NEW o \in Options, sanji_get_cmdline_options(o) PROVE RangeInv'
  <2>1. stage' \in {"options", "usage"}
    BY <1>3 DEF sanji_get_cmdline_options
  <2>2. CASE UNCHANGED config
    BY <2>1, <2>2 DEF RangeInv
  <2>3. CASE ~ option_refused(o) /\ config' = [config EXCEPT ![o.key] = option_value(o)]
    <3>1. DOMAIN config' = Keys
      BY <2>3 DEF RangeInv
    <3>2. CASE o.key = "host"
      <4>1. option_value(o) = o.arg
        BY <3>2 DEF option_value, Numbers, Strings
      <4>2. config'["host"] = o.arg
        BY <1>1, <2>3, <3>2, <4>1 DEF RangeInv
      <4>3. Fits(o.arg)
        BY <2>3, <3>2 DEF option_refused
      <4> QED
        BY <2>1, <3>1, <4>2, <4>3 DEF RangeInv
    <3>3. CASE o.key # "host"
      BY <1>1, <2>1, <2>3, <3>1, <3>3 DEF RangeInv
    <3> QED
      BY <3>2, <3>3
  <2> QED
    BY <1>3, <2>2, <2>3 DEF sanji_get_cmdline_options
<1>4. CASE open_config_file
  BY <1>4 DEF open_config_file, RangeInv
<1>5. CASE sanji_load_config_file
  <2>1. stage' = "validate" /\ config' = load
    BY <1>5 DEF sanji_load_config_file
  <2>2. DOMAIN load = Keys
    BY DEF load
  <2>3. load["host"] = config["host"] \/ (/\ load["host"] = ini_findkey("host")
                                         /\ Fits(ini_findkey("host")))
    BY <1>1 DEF load, entry_ignored, entry_value, Strings
  <2> QED
    BY <2>1, <2>2, <2>3 DEF RangeInv
<1>6. CASE sanji_validate_configs
  BY <1>6 DEF sanji_validate_configs, validate, RangeInv
<1>7. CASE sanji_userdata_init
  BY <1>7 DEF sanji_userdata_init, RangeInv
<1> QED
  BY <1>2, <1>3, <1>4, <1>5, <1>6, <1>7 DEF ConfigNext, parse_config_file, main_goes_on, configVars

(* A controller that starts has a valid configuration, for all texts,      *)
(* files and command lines.                                                *)
THEOREM AlwaysStartsValid == ConfigSpec => []StartsValid
<1>1. ConfigInit => RangeInv
  BY ConfigAssumption DEF ConfigInit, RangeInv, Fits
<1>2. RangeInv => StartsValid
  BY DEF RangeInv, StartsValid
<1> QED
  BY <1>1, <1>2, RangeKept, PTL DEF ConfigSpec

(* What the options say of key k. *)
Given(k) == {i \in DOMAIN args : args[i].key = k}

OptionOrDefault(k) ==
    IF Given(k) # {} THEN option_value(args[LastOf(Given(k))]) ELSE Defaults[k]

(* What the file says of it. *)
FromFile(k) ==
    LET entry == <<"global", k>>
    IN  /\ k \in FileKeys /\ Setting(entry) # {}
        /\ ~ entry_ignored(k, LastText(entry))

(* Source, in these terms. *)
LEMMA SourceIs ==
    \A k : Source(k) = IF loaded /\ FromFile(k)
                       THEN entry_value(k, LastText(<<"global", k>>))
                       ELSE OptionOrDefault(k)
BY DEF Source, FromFile, OptionOrDefault, Given

(* Why SettingsFromSource holds: at every stage the configuration is what  *)
(* has been said so far.                                                   *)
SourceInv ==
    /\ DOMAIN config = Keys
    /\ args \in Seq(Options)
    /\ \A k \in Keys : Given(k) # {} => LastOf(Given(k)) \in Given(k)
    /\ stage \in {"options", "file"} => ~ loaded
    /\ Headed /\ stage # "usage" => \A k \in Keys : config[k] = Source(k)

(* Under headings, ini_findkey finds exactly what the file says. *)
LEMMA FileSays ==
    ASSUME ParseInv, pc = "parsed", Headed, NEW k \in FileKeys
    PROVE  LET entry == <<"global", k>>
           IN  IF Setting(entry) = {} THEN ini_findkey(k) = Null
               ELSE ini_findkey(k) # Null /\ ini_findkey(k) = LastText(entry)
<1> DEFINE entry == <<"global", k>>
<1>1. entry \in PairKeys
  BY ConfigAssumption DEF PairKeys
<1>2. Reading /\ LinesStored /\ pos = Len(file)
  BY DEF ParseInv
<1>3. Setting(entry) = SetBy(entry)
  BY <1>2, AllRead
<1> HIDE DEF entry
<1>4. /\ SetBy(entry) = {} => ini_get(entry) = Null
      /\ SetBy(entry) # {} => /\ ini_get(entry) \in Texts
                              /\ ini_get(entry) = value_text(Entry(LastOf(SetBy(entry))))
  BY <1>1, <1>2 DEF LinesStored
<1>5. ini_findkey(k) = ini_get(entry)
  BY DEF ini_findkey, entry
<1>6. Null \notin Texts
  BY ConfigAssumption
<1> QED
  BY <1>3, <1>4, <1>5, <1>6 DEF LastText, entry

(* The steps that say nothing new. *)
LEMMA SaysNothing ==
    ASSUME SourceInv, UNCHANGED <<file, config, args, loaded>>,
           stage' # "usage" => stage # "usage",
           stage' \in {"options", "file"} => stage \in {"options", "file"}
    PROVE  SourceInv'
<1>1. \A k : Setting(k)' = Setting(k) /\ LastText(k)' = LastText(k)
  <2>1. \A k : Setting(k)' = Setting(k)
    BY FileFixed DEF Setting
  <2> QED
    BY <2>1, FileFixed DEF LastText
<1>2. \A k : Source(k)' = Source(k)
  BY <1>1 DEF Source
<1>3. Headed' <=> Headed
  BY FileFixed
<1>4. \A k \in Keys : Given(k)' # {} => LastOf(Given(k)') \in Given(k)'
  <2>1. \A k : Given(k)' = Given(k)
    BY DEF Given
  <2> QED
    BY <2>1 DEF SourceInv
<1>5. DOMAIN config' = Keys /\ args' \in Seq(Options)
  BY DEF SourceInv
<1>6. stage' \in {"options", "file"} => ~ loaded'
  BY DEF SourceInv
<1>7. Headed' /\ stage' # "usage" => \A k \in Keys : config'[k] = Source(k)'
  BY <1>2, <1>3 DEF SourceInv
<1> QED
  BY <1>4, <1>5, <1>6, <1>7 DEF SourceInv

(* An option sets its own key and no other. *)
LEMMA OptionSays ==
    ASSUME SourceInv, NEW o \in Options, sanji_get_cmdline_options(o)
    PROVE  SourceInv'
<1>1. /\ stage = "options" /\ args' = Append(args, o) /\ UNCHANGED <<vars, loaded>>
      /\ \/ stage' = "usage" /\ UNCHANGED config
         \/ /\ ~ option_refused(o) /\ stage' = stage
            /\ config' = [config EXCEPT ![o.key] = option_value(o)]
  BY DEF sanji_get_cmdline_options
<1>2. ~ loaded /\ ~ loaded' /\ args \in Seq(Options) /\ args' \in Seq(Options)
  BY <1>1 DEF SourceInv
<1>3. file' = file
  BY <1>1 DEF vars
<1> DEFINE n == Len(args) + 1
<1>4. /\ DOMAIN args' = DOMAIN args \cup {n} /\ args'[n] = o /\ n \in Nat
      /\ \A i \in DOMAIN args : args'[i] = args[i] /\ i \in Int /\ i <= n
  BY <1>1, <1>2
<1> HIDE DEF n
<1>5. ASSUME NEW k \in Keys
      PROVE  /\ k = o.key => n \in Given(k)' /\ LastOf(Given(k)') = n
             /\ k # o.key => Given(k)' = Given(k)
  <2>1. CASE k = o.key
    <3>1. n \in Given(k)' /\ Given(k)' \in SUBSET Int /\ \A i \in Given(k)' : i <= n
      BY <1>4, <2>1 DEF Given
    <3> QED
      BY <2>1, <3>1, LastIs
  <2>2. CASE k # o.key
    BY <1>4, <2>2 DEF Given
  <2> QED
    BY <2>1, <2>2
<1>6. ASSUME NEW k \in Keys, Given(k)' # {} PROVE LastOf(Given(k)') \in Given(k)'
  <2>1. CASE k = o.key
    BY <1>5, <2>1
  <2>2. CASE k # o.key
    <3>1. Given(k)' = Given(k)
      BY <1>5, <2>2
    <3>2. LastOf(Given(k)) \in Given(k)
      BY <1>6, <3>1 DEF SourceInv
    <3> QED
      BY <3>1, <3>2
  <2> QED
    BY <2>1, <2>2
<1>7. CASE stage' = "usage" /\ UNCHANGED config
  BY <1>2, <1>7, <1>6 DEF SourceInv
<1>8. CASE /\ ~ option_refused(o) /\ stage' = stage
           /\ config' = [config EXCEPT ![o.key] = option_value(o)]
  <2>1. o.key \in Keys /\ DOMAIN config = Keys
    BY <1>8 DEF option_refused, SourceInv
  <2>3. ASSUME Headed, NEW k \in Keys PROVE config'[k] = Source(k)'
    <3>1. Source(k)' = OptionOrDefault(k)' /\ Source(k) = OptionOrDefault(k)
      BY <1>2, SourceIs DEF Source, OptionOrDefault, Given
    <3>2. config[k] = Source(k)
      BY <1>1, <2>3 DEF SourceInv
    <3>3. CASE k = o.key
      <4>1. n \in Given(k)' /\ LastOf(Given(k)') = n
        BY <1>5, <3>3
      <4>3. OptionOrDefault(k)' = option_value(o)
        BY <1>4, <4>1 DEF OptionOrDefault, option_value
      <4> QED
        BY <1>8, <2>1, <3>1, <3>3, <4>3
    <3>4. CASE k # o.key
      <4>1. Given(k)' = Given(k)
        BY <1>5, <3>4
      <4>2. config'[k] = config[k]
        BY <1>8, <2>1, <3>4
      <4>3. OptionOrDefault(k)' = OptionOrDefault(k)
        <5>1. CASE Given(k) = {}
          BY <4>1, <5>1 DEF OptionOrDefault
        <5>2. CASE Given(k) # {}
          <6>1. LastOf(Given(k)) \in DOMAIN args
            BY <5>2 DEF SourceInv, Given
          <6>2. args'[LastOf(Given(k))] = args[LastOf(Given(k))]
            BY <1>4, <6>1
          <6> QED
            BY <4>1, <5>2, <6>2 DEF OptionOrDefault, option_value
        <5> QED
          BY <5>1, <5>2
      <4> QED
        BY <3>1, <3>2, <4>2, <4>3
    <3> QED
      BY <3>3, <3>4
  <2>4. Headed' <=> Headed
    BY <1>3, FileFixed
  <2>5. DOMAIN config' = Keys
    BY <1>8, <2>1
  <2> QED
    BY <1>2, <1>6, <2>3, <2>4, <2>5 DEF SourceInv
<1> QED
  BY <1>1, <1>7, <1>8

(* What the file says goes over the options, and nothing else does. *)
LEMMA LoadSays ==
    ASSUME SourceInv, ParseInv, sanji_load_config_file
    PROVE  SourceInv'
<1>1. /\ stage = "file" /\ stage' = "validate" /\ pc = "parsed" /\ config' = load
      /\ loaded' = TRUE /\ args' = args /\ file' = file
  BY DEF sanji_load_config_file, ini_release
<1>2. ~ loaded
  BY <1>1 DEF SourceInv
<1>3. Headed' <=> Headed
  BY <1>1, FileFixed
<1>4. ASSUME Headed, NEW k \in Keys PROVE config'[k] = Source(k)'
  <2> DEFINE entry == <<"global", k>>
  <2>1. config[k] = OptionOrDefault(k)
    BY <1>1, <1>2, <1>4, SourceIs DEF SourceInv
  <2>2. Setting(entry)' = Setting(entry) /\ LastText(entry)' = LastText(entry)
    <3>1. Setting(entry)' = Setting(entry)
      BY <1>1, FileFixed DEF Setting
    <3> QED
      BY <1>1, <3>1, FileFixed DEF LastText
  <2>3. OptionOrDefault(k)' = OptionOrDefault(k)
    BY <1>1 DEF OptionOrDefault, Given
  <2>4. Source(k)' = IF FromFile(k) THEN entry_value(k, LastText(entry))
                     ELSE OptionOrDefault(k)
    BY <1>1, <2>2, <2>3 DEF Source, FromFile, OptionOrDefault, Given
  <2>5. load[k] = IF /\ k \in FileKeys /\ ini_findkey(k) # Null
                     /\ ~ entry_ignored(k, ini_findkey(k))
                  THEN entry_value(k, ini_findkey(k)) ELSE config[k]
    BY DEF load
  <2>6. CASE k \notin FileKeys
    BY <1>1, <2>1, <2>4, <2>5, <2>6 DEF FromFile
  <2>7. CASE k \in FileKeys /\ Setting(entry) = {}
    <3>1. ini_findkey(k) = Null
      BY <1>1, <1>4, <2>7, FileSays
    <3> QED
      BY <1>1, <2>1, <2>4, <2>5, <2>7, <3>1 DEF FromFile
  <2>8. CASE k \in FileKeys /\ Setting(entry) # {}
    <3>1. ini_findkey(k) # Null /\ ini_findkey(k) = LastText(entry)
      BY <1>1, <1>4, <2>8, FileSays
    <3> QED
      BY <1>1, <2>1, <2>4, <2>5, <2>8, <3>1 DEF FromFile
  <2> QED
    BY <2>6, <2>7, <2>8
<1>5. \A k \in Keys : Given(k)' # {} => LastOf(Given(k)') \in Given(k)'
  <2>1. \A k : Given(k)' = Given(k)
    BY <1>1 DEF Given
  <2> QED
    BY <2>1 DEF SourceInv
<1>6. DOMAIN config' = Keys /\ args' \in Seq(Options)
  BY <1>1 DEF SourceInv, load
<1> QED
  BY <1>1, <1>3, <1>4, <1>5, <1>6 DEF SourceInv

LEMMA SourceKept ==
    SourceInv /\ ParseInv /\ [ConfigNext]_<<vars, configVars>> => SourceInv'
<1> SUFFICES ASSUME SourceInv, ParseInv, [ConfigNext]_<<vars, configVars>>
             PROVE  SourceInv'
  OBVIOUS
<1>1. CASE UNCHANGED <<vars, configVars>>
  BY <1>1, SaysNothing DEF vars, configVars
<1>2. ASSUME NEW o \in Options, sanji_get_cmdline_options(o) PROVE SourceInv'
  BY <1>2, OptionSays
<1>3. CASE open_config_file
  <2>1. stage = "options" /\ UNCHANGED <<file, config, args, loaded>>
    BY <1>3 DEF open_config_file, ini_init_fails, vars
  <2> QED
    BY <2>1, SaysNothing
<1>4. CASE parse_config_file
  <2>1. UNCHANGED <<stage, file, config, args, loaded>>
    BY <1>4 DEF parse_config_file, ini_parse_file, ini_parse_end, configVars
  <2> QED
    BY <2>1, SaysNothing
<1>5. CASE sanji_load_config_file
  BY <1>5, LoadSays
<1>6. CASE sanji_validate_configs \/ sanji_userdata_init
  <2>1. /\ UNCHANGED <<file, config, args, loaded>> /\ stage # "usage"
        /\ stage' \notin {"options", "file"}
    BY <1>6 DEF sanji_validate_configs, sanji_userdata_init, vars
  <2> QED
    BY <2>1, SaysNothing
<1>7. CASE main_goes_on
  BY <1>1, <1>7 DEF main_goes_on
<1> QED
  BY <1>1, <1>2, <1>3, <1>4, <1>5, <1>6, <1>7 DEF ConfigNext

(* For all files whose values stand under headings and all command lines:  *)
(* every setting of a controller that starts is the file's last usable     *)
(* entry, else the last option, else the default.                          *)
THEOREM SettingsAsGiven == ConfigSpec => []SettingsFromSource
<1>1. ConfigInit => SourceInv
  <2> SUFFICES ASSUME ConfigInit PROVE SourceInv
    OBVIOUS
  <2>1. args = << >> /\ config = Defaults /\ ~ loaded
    BY DEF ConfigInit
  <2>2. args \in Seq(Options) /\ DOMAIN args = {}
    BY <2>1
  <2>3. \A k : Given(k) = {}
    BY <2>2 DEF Given
  <2>4. \A k : Source(k) = Defaults[k]
    BY <2>1, <2>3, SourceIs DEF OptionOrDefault
  <2> QED
    BY <2>1, <2>2, <2>3, <2>4, ConfigAssumption DEF SourceInv
<1>2. SourceInv => SettingsFromSource
  BY DEF SourceInv, SettingsFromSource
<1>3. ConfigSpec => []ParseInv
  BY ConfigParses, InitInv, NextInv, ParseInit, ParseNext, PTL DEF Spec
<1> QED
  BY <1>1, <1>2, <1>3, SourceKept, PTL DEF ConfigSpec
=============================================================================
