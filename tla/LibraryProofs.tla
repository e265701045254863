--------------------------- MODULE LibraryProofs ----------------------------
(***************************************************************************)
(* Proofs about the data block pool, the request pool, the block file and  *)
(* the decoder, for any number of threads, blocks, objects, bytes and      *)
(* headers.                                                                *)
(***************************************************************************)
EXTENDS Library, SequenceTheorems, FiniteSetTheorems, WellFoundedInduction, TLAPS

(***************************************************************************)
(* The block file: what is in the file, in the block and in the hands of   *)
(* saveData, in this order, is increasing, and complete until a write      *)
(* fails.                                                                  *)
(***************************************************************************)
Bytes == file \o block \o data

Increasing(s) == \A i, j \in 1 .. Len(s) : i < j => s[i] < s[j]

UpTo(s, m) == \A i \in 1 .. Len(s) : s[i] <= m

Numbers(n) == [i \in 1 .. n |-> i]

FileInv ==
  /\ file \in Seq(Nat) /\ block \in Seq(Nat) /\ data \in Seq(Nat)
  /\ saved \in Nat /\ failed \in BOOLEAN
  /\ Increasing(Bytes)
  /\ UpTo(Bytes, saved)
  /\ failed \/ Bytes = Numbers(saved)

(***************************************************************************)
(* The request pool.  Arc(a, b) is the way around the pool from a to b,    *)
(* without b.                                                              *)
(***************************************************************************)
Off(a, x) == IF a <= x THEN x - a ELSE x + ObjCount - a

Arc(a, b) == {x \in Objs : Off(a, x) < Off(a, b)}

Holders == {u \in Users : user[u] \in {"mark", "has"}}
HeldObjs == {obj[u] : u \in Holders}

Looking == {u \in Users : user[u] \in {"scan", "swap"}}

(* Those who read the index that is still there.                           *)
Fresh == {u \in Looking : objLag[u] = 0}

OwnInv ==
  /\ \A u \in Users : user[u] = "has" => obj[u] \in marked
  /\ \A x \in marked : \E u \in Users : user[u] = "has" /\ obj[u] = x
  /\ \A u, v \in Holders : obj[u] = obj[v] => u = v
  /\ \A u \in Users : user[u] \in {"scan", "swap", "mark"} => follow[u] = NextObj(obj[u])

(* What the fresh ones skip was held when the first of them read the       *)
(* index: E.                                                               *)
FreshOk(E) ==
  /\ Fresh # {} => Cardinality(E) < Cardinality(Users) /\ HeldObjs \subseteq E
  /\ \A v \in Fresh : /\ seen[v] = curIdx /\ Arc(curIdx, obj[v]) \subseteq E
                      /\ user[v] = "swap" => obj[v] \notin HeldObjs

(* The index has gone on since v read it, over objects in W, which are not *)
(* all: it has not come back.                                              *)
BehindOk(E, v) ==
  \E W \in SUBSET Objs :
    /\ Cardinality(W) < Cardinality(Users) + objLag[v]
    /\ HeldObjs \subseteq W /\ E \subseteq W
    /\ curIdx # seen[v] /\ Arc(seen[v], curIdx) \subseteq W

(* The index has gone on since u took its object, over objects in W, which *)
(* leave room for one more: nobody has come to the object of u.            *)
MarkOk(E, u) ==
  /\ objLag[u] = 0 => curIdx = follow[u]
  /\ objLag[u] > 0 \/ Fresh # {} =>
       \E W \in SUBSET Objs :
         /\ Cardinality(W) + 2 <= Cardinality(Users) + objLag[u]
         /\ HeldObjs \ {obj[u]} \subseteq W /\ E \ {obj[u]} \subseteq W
         /\ Arc(follow[u], curIdx) \subseteq W

PassInv ==
  \E E \in SUBSET Objs :
    /\ FreshOk(E)
    /\ \A v \in Looking \ Fresh : BehindOk(E, v)
    /\ \A u \in Users : user[u] = "mark" => MarkOk(E, u)

ObjectTypes ==
  /\ curIdx \in Objs /\ marked \subseteq Objs
  /\ user \in [Users -> {"idle", "scan", "swap", "retry", "mark", "has"}]
  /\ seen \in [Users -> Objs] /\ follow \in [Users -> Objs] /\ obj \in [Users -> Objs]
  /\ objLag \in [Users -> 0 .. ObjLag]

ObjectInv == ObjectTypes /\ OwnInv /\ PassInv

(***************************************************************************)
(* The data block pool.  The n free blocks and the end of the list, in     *)
(* their order: f.                                                         *)
(***************************************************************************)
IsFreeList(n, f) ==
  /\ f \in [0 .. n -> Bufs \cup {Null}] /\ f[0] = nextBlock /\ f[n] = Null
  /\ \A i \in 0 .. n-1 : f[i] \in Bufs \ TakenBufs /\ f[i+1] = link[f[i]]
  /\ \A i, j \in 0 .. n-1 : f[i] = f[j] => i = j
  /\ \A b \in Bufs \ TakenBufs : \E i \in 0 .. n-1 : f[i] = b

ListInv == \E n \in Nat : \E f \in [0 .. n -> Bufs \cup {Null}] : IsFreeList(n, f)

(* Every block has one owner at most, and the mutex too.                   *)
OwnerInv ==
  /\ \A t \in Getters : /\ getter[t] \in {"head", "unlink"} => bufMutex = {t}
                        /\ getter[t] = "unlink" => got[t] = nextBlock
                        /\ getter[t] = "fill" => got[t] \in Bufs \ filled
  /\ \A t \in Releasers : /\ releaser[t] \in {"link", "head"} => bufMutex = {t}
                          /\ releaser[t] = "head" => link[back[t]] = nextBlock
                          /\ releaser[t] # "idle" => back[t] \in Bufs \ filled
  /\ \A t, u \in Getters : getter[t] = "fill" /\ getter[u] = "fill" /\ got[t] = got[u] => t = u
  /\ \A t, u \in Releasers : releaser[t] # "idle" /\ releaser[u] # "idle" /\ back[t] = back[u] => t = u
  /\ \A t \in Getters, u \in Releasers : getter[t] = "fill" /\ releaser[u] # "idle" => got[t] # back[u]

BufferTypes ==
  /\ link \in [Bufs -> Bufs \cup {Null, Data}]
  /\ getter \in [Getters -> {"idle", "lock", "head", "unlink", "none", "fill"}]
  /\ got \in [Getters -> Bufs \cup {Null}] /\ filled \subseteq Bufs
  /\ releaser \in [Releasers -> {"idle", "lock", "link", "head"}]
  /\ back \in [Releasers -> Bufs \cup {Null}]
  /\ bufMutex \subseteq Getters \cup Releasers

BufferInv == BufferTypes /\ OwnerInv /\ ListInv

-----------------------------------------------------------------------------
(***************************************************************************)
(* The block file.                                                         *)
(***************************************************************************)
(* All of s is before all of t.                                            *)
Before(s, t) == \A i \in 1 .. Len(s), j \in 1 .. Len(t) : s[i] < t[j]

LEMMA ConcatParts ==
  ASSUME NEW s \in Seq(Nat), NEW t \in Seq(Nat)
  PROVE  /\ s \o t \in Seq(Nat) /\ Len(s \o t) = Len(s) + Len(t) /\ Len(s) \in Nat /\ Len(t) \in Nat
         /\ \A i \in 1 .. Len(s) : i \in 1 .. Len(s) + Len(t) /\ (s \o t)[i] = s[i]
         /\ \A i \in 1 .. Len(t) : Len(s) + i \in 1 .. Len(s) + Len(t) /\ (s \o t)[Len(s) + i] = t[i]
         /\ \A k \in 1 .. Len(s) + Len(t) :
              k \in 1 .. Len(s) \/ (k - Len(s) \in 1 .. Len(t) /\ k = Len(s) + (k - Len(s)))
<1> DEFINE u == s \o t
           l == Len(s)
           n == Len(t)
<1>1. /\ u \in Seq(Nat) /\ Len(u) = l + n
      /\ \A i \in 1 .. l + n : u[i] = IF i <= l THEN s[i] ELSE t[i - l]
  BY ConcatProperties
<1>2. l \in Nat /\ n \in Nat
  BY LenProperties
<1> HIDE DEF u, l, n
<1>3. \A i \in 1 .. l : i \in 1 .. l + n /\ i <= l
  BY <1>2
<1>4. \A i \in 1 .. n : l + i \in 1 .. l + n /\ ~(l + i <= l) /\ (l + i) - l = i
  BY <1>2
<1>5. \A k \in 1 .. l + n : k \in 1 .. l \/ (k - l \in 1 .. n /\ k = l + (k - l))
  BY <1>2
<1>6. \A i \in 1 .. l : u[i] = s[i]
  BY <1>1, <1>3
<1>7. \A i \in 1 .. n : u[l + i] = t[i]
  BY <1>1, <1>4
<1>8. QED BY <1>1, <1>2, <1>3, <1>4, <1>5, <1>6, <1>7 DEF u, l, n

LEMMA IncreasingParts ==
  ASSUME NEW s \in Seq(Nat), NEW t \in Seq(Nat)
  PROVE  Increasing(s \o t) <=> Increasing(s) /\ Increasing(t) /\ Before(s, t)
<1> DEFINE u == s \o t
           l == Len(s)
           n == Len(t)
<1>1. /\ Len(u) = l + n /\ l \in Nat /\ n \in Nat
      /\ \A i \in 1 .. l : i \in 1 .. l + n /\ u[i] = s[i]
      /\ \A i \in 1 .. n : l + i \in 1 .. l + n /\ u[l + i] = t[i]
      /\ \A k \in 1 .. l + n : k \in 1 .. l \/ (k - l \in 1 .. n /\ k = l + (k - l))
  BY ConcatParts
<1>2. /\ Increasing(u) <=> \A i, j \in 1 .. l + n : i < j => u[i] < u[j]
      /\ Increasing(s) <=> \A i, j \in 1 .. l : i < j => s[i] < s[j]
      /\ Increasing(t) <=> \A i, j \in 1 .. n : i < j => t[i] < t[j]
      /\ Before(s, t) <=> \A i \in 1 .. l, j \in 1 .. n : s[i] < t[j]
  BY <1>1 DEF Increasing, Before
<1> HIDE DEF u, l, n
<1>3. ASSUME Increasing(u) PROVE Increasing(s) /\ Increasing(t) /\ Before(s, t)
  <2>1. \A i, j \in 1 .. l : i < j => s[i] < s[j]
    BY <1>1, <1>2, <1>3
  <2>2. \A i, j \in 1 .. n : i < j => l + i < l + j
    BY <1>1
  <2>3. \A i, j \in 1 .. n : i < j => t[i] < t[j]
    BY <1>1, <1>2, <1>3, <2>2
  <2>4. \A i \in 1 .. l, j \in 1 .. n : i < l + j
    BY <1>1
  <2>5. \A i \in 1 .. l, j \in 1 .. n : s[i] < t[j]
    BY <1>1, <1>2, <1>3, <2>4
  <2>6. QED BY <1>2, <2>1, <2>3, <2>5
<1>4. ASSUME Increasing(s), Increasing(t), Before(s, t), NEW i \in 1 .. l + n, NEW j \in 1 .. l + n, i < j
      PROVE  u[i] < u[j]
  <2>1. CASE i \in 1 .. l /\ j \in 1 .. l
    BY <1>1, <1>2, <1>4, <2>1
  <2>2. CASE i \in 1 .. l /\ j - l \in 1 .. n /\ j = l + (j - l)
    BY <1>1, <1>2, <1>4, <2>2
  <2>3. CASE i - l \in 1 .. n /\ i = l + (i - l) /\ j - l \in 1 .. n /\ j = l + (j - l)
    <3>1. i - l < j - l
      BY <1>1, <1>4
    <3>2. t[i - l] < t[j - l] /\ u[i] = t[i - l] /\ u[j] = t[j - l]
      BY <1>1, <1>2, <1>4, <2>3, <3>1
    <3>3. QED BY <3>2
  <2>4. ~(i - l \in 1 .. n /\ j \in 1 .. l)
    BY <1>1, <1>4
  <2>5. QED BY <1>1, <2>1, <2>2, <2>3, <2>4
<1>5. QED BY <1>2, <1>3, <1>4 DEF u

LEMMA BeforeParts ==
  ASSUME NEW s \in Seq(Nat), NEW t \in Seq(Nat), NEW c \in Seq(Nat)
  PROVE  Before(s \o t, c) <=> Before(s, c) /\ Before(t, c)
<1> DEFINE u == s \o t
           l == Len(s)
           n == Len(t)
<1>1. /\ Len(u) = l + n /\ l \in Nat /\ n \in Nat
      /\ \A i \in 1 .. l : i \in 1 .. l + n /\ u[i] = s[i]
      /\ \A i \in 1 .. n : l + i \in 1 .. l + n /\ u[l + i] = t[i]
      /\ \A k \in 1 .. l + n : k \in 1 .. l \/ (k - l \in 1 .. n /\ k = l + (k - l))
  BY ConcatParts
<1>2. /\ Before(u, c) <=> \A i \in 1 .. l + n, j \in 1 .. Len(c) : u[i] < c[j]
      /\ Before(s, c) <=> \A i \in 1 .. l, j \in 1 .. Len(c) : s[i] < c[j]
      /\ Before(t, c) <=> \A i \in 1 .. n, j \in 1 .. Len(c) : t[i] < c[j]
  BY <1>1 DEF Before
<1> HIDE DEF u, l, n
<1>3. ASSUME NEW j \in 1 .. Len(c)
      PROVE  (\A i \in 1 .. l + n : u[i] < c[j])
               <=> (\A i \in 1 .. l : s[i] < c[j]) /\ (\A i \in 1 .. n : t[i] < c[j])
  <2>1. ASSUME \A i \in 1 .. l + n : u[i] < c[j]
        PROVE  (\A i \in 1 .. l : s[i] < c[j]) /\ (\A i \in 1 .. n : t[i] < c[j])
    BY <1>1, <2>1
  <2>2. ASSUME \A i \in 1 .. l : s[i] < c[j], \A i \in 1 .. n : t[i] < c[j], NEW i \in 1 .. l + n
        PROVE  u[i] < c[j]
    <3>1. CASE i \in 1 .. l
      BY <1>1, <2>2, <3>1
    <3>2. CASE i - l \in 1 .. n /\ i = l + (i - l)
      BY <1>1, <2>2, <3>2
    <3>3. QED BY <1>1, <3>1, <3>2
  <2>3. QED BY <2>1, <2>2
<1>4. QED BY <1>2, <1>3 DEF u

LEMMA UpToParts ==
  ASSUME NEW s \in Seq(Nat), NEW t \in Seq(Nat), NEW m \in Nat
  PROVE  UpTo(s \o t, m) <=> UpTo(s, m) /\ UpTo(t, m)
<1> DEFINE u == s \o t
           l == Len(s)
           n == Len(t)
<1>1. /\ Len(u) = l + n /\ l \in Nat /\ n \in Nat
      /\ \A i \in 1 .. l : i \in 1 .. l + n /\ u[i] = s[i]
      /\ \A i \in 1 .. n : l + i \in 1 .. l + n /\ u[l + i] = t[i]
      /\ \A k \in 1 .. l + n : k \in 1 .. l \/ (k - l \in 1 .. n /\ k = l + (k - l))
  BY ConcatParts
<1>2. /\ UpTo(u, m) <=> \A i \in 1 .. l + n : u[i] <= m
      /\ UpTo(s, m) <=> \A i \in 1 .. l : s[i] <= m
      /\ UpTo(t, m) <=> \A i \in 1 .. n : t[i] <= m
  BY <1>1 DEF UpTo
<1> HIDE DEF u, l, n
<1>3. UpTo(u, m) => UpTo(s, m) /\ UpTo(t, m)
  BY <1>1, <1>2
<1>4. ASSUME UpTo(s, m), UpTo(t, m), NEW i \in 1 .. l + n PROVE u[i] <= m
  <2>1. CASE i \in 1 .. l
    BY <1>1, <1>2, <1>4, <2>1
  <2>2. CASE i - l \in 1 .. n /\ i = l + (i - l)
    BY <1>1, <1>2, <1>4, <2>2
  <2>3. QED BY <1>1, <2>1, <2>2
<1>5. QED BY <1>2, <1>3, <1>4 DEF u

(* The beginning of a sequence.                                            *)
LEMMA FirstPart ==
  ASSUME NEW b \in Seq(Nat), NEW n \in 0 .. Len(b)
  PROVE  /\ SubSeq(b, 1, n) \in Seq(Nat) /\ Len(SubSeq(b, 1, n)) = n
         /\ \A i \in 1 .. n : i \in 1 .. Len(b) /\ SubSeq(b, 1, n)[i] = b[i]
<1> DEFINE s == SubSeq(b, 1, n)
           l == Len(b)
<1>1. l \in Nat /\ \A i \in 1 .. l : b[i] \in Nat
  BY LenProperties, ElementOfSeq
<1>2. n \in 0 .. l
  OBVIOUS
<1> HIDE DEF l
<1>3. /\ n \in Int /\ 1 \in Int /\ \A i \in 1 .. n : b[i] \in Nat /\ i \in 1 .. l /\ 1 + i - 1 = i
      /\ n - 1 + 1 = n /\ (IF 1 <= n THEN n - 1 + 1 ELSE 0) = n
  BY <1>1, <1>2
<1>4. /\ s \in Seq(Nat) /\ Len(s) = (IF 1 <= n THEN n - 1 + 1 ELSE 0)
      /\ \A i \in 1 .. n - 1 + 1 : s[i] = b[1 + i - 1]
  BY <1>3, SubSeqProperties
<1> HIDE DEF s
<1>5. s \in Seq(Nat) /\ Len(s) = n /\ \A i \in 1 .. n : s[i] = b[1 + i - 1]
  BY <1>3, <1>4
<1>6. \A i \in 1 .. n : i \in 1 .. l /\ s[i] = b[i]
  BY <1>3, <1>5
<1>7. QED BY <1>5, <1>6 DEF s, l

(* To leave out the end of the middle part keeps the order.                *)
LEMMA CutMiddle ==
  ASSUME NEW a \in Seq(Nat), NEW b \in Seq(Nat), NEW c \in Seq(Nat), NEW m \in Nat,
         NEW n \in 0 .. Len(b), Increasing(a \o b \o c), UpTo(a \o b \o c, m)
  PROVE  Increasing(a \o SubSeq(b, 1, n) \o c) /\ UpTo(a \o SubSeq(b, 1, n) \o c, m)
<1> DEFINE s == SubSeq(b, 1, n)
<1>1. s \in Seq(Nat) /\ Len(s) = n /\ \A i \in 1 .. n : i \in 1 .. Len(b) /\ s[i] = b[i]
  BY FirstPart
<1> HIDE DEF s
<1>2. a \o b \in Seq(Nat) /\ a \o s \in Seq(Nat)
  BY <1>1, ConcatParts
<1>3. /\ Increasing(a) /\ Increasing(b) /\ Increasing(c)
      /\ Before(a, b) /\ Before(a, c) /\ Before(b, c)
      /\ UpTo(a, m) /\ UpTo(b, m) /\ UpTo(c, m)
  <2>1. Increasing(a \o b) /\ Increasing(c) /\ Before(a \o b, c)
    BY <1>2, IncreasingParts
  <2>2. Increasing(a) /\ Increasing(b) /\ Before(a, b)
    BY <2>1, IncreasingParts
  <2>3. Before(a, c) /\ Before(b, c)
    BY <2>1, BeforeParts
  <2>4. UpTo(a \o b, m) /\ UpTo(c, m)
    BY <1>2, UpToParts
  <2>5. UpTo(a, m) /\ UpTo(b, m)
    BY <2>4, UpToParts
  <2>6. QED BY <2>1, <2>2, <2>3, <2>4, <2>5
<1>4. Increasing(s) /\ Before(a, s) /\ Before(s, c) /\ UpTo(s, m)
  BY <1>1, <1>3 DEF Increasing, Before, UpTo
<1>5. Increasing(a \o s) /\ UpTo(a \o s, m)
  BY <1>1, <1>3, <1>4, IncreasingParts, UpToParts
<1>6. Before(a \o s, c)
  BY <1>1, <1>3, <1>4, BeforeParts
<1>7. Increasing(a \o s \o c)
  BY <1>2, <1>3, <1>5, <1>6, IncreasingParts
<1>8. UpTo(a \o s \o c, m)
  BY <1>2, <1>3, <1>5, UpToParts
<1>9. QED BY <1>7, <1>8 DEF s

(* New bytes are numbered on.                                              *)
LEMMA SaveMore ==
  ASSUME NEW s \in Seq(Nat), NEW m \in Nat, NEW n \in Nat, NEW t, t = [i \in 1 .. n |-> m + i],
         Increasing(s), UpTo(s, m)
  PROVE  /\ t \in Seq(Nat) /\ Increasing(s \o t) /\ UpTo(s \o t, m + n)
         /\ s = Numbers(m) => s \o t = Numbers(m + n)
<1>1. t \in Seq(Nat) /\ Len(t) = n /\ \A i \in 1 .. n : t[i] = m + i
  OBVIOUS
<1>2. \A i \in 1 .. Len(s) : s[i] \in Nat /\ s[i] <= m
  BY ElementOfSeq DEF UpTo
<1>3. \A x, y \in Nat : (x <= m => x <= m + n /\ (y >= 1 => x < m + y)) /\ (y <= n => m + y <= m + n)
  OBVIOUS
<1>4. Increasing(t) /\ Before(s, t) /\ UpTo(s, m + n) /\ UpTo(t, m + n)
  <2>1. \A i \in 1 .. n : i \in Nat /\ i >= 1 /\ i <= n
    OBVIOUS
  <2>2. \A i, j \in 1 .. n : i < j => m + i < m + j
    OBVIOUS
  <2>3. Increasing(t)
    BY <1>1, <2>2 DEF Increasing
  <2>4. Before(s, t)
    BY <1>1, <1>2, <1>3, <2>1 DEF Before
  <2>5. UpTo(s, m + n)
    BY <1>2, <1>3 DEF UpTo
  <2>6. UpTo(t, m + n)
    BY <1>1, <1>3, <2>1 DEF UpTo
  <2>7. QED BY <2>3, <2>4, <2>5, <2>6
<1>5. m + n \in Nat
  OBVIOUS
<1>6. Increasing(s \o t) /\ UpTo(s \o t, m + n)
  BY <1>1, <1>4, <1>5, IncreasingParts, UpToParts
<1>7. ASSUME s = Numbers(m) PROVE s \o t = Numbers(m + n)
  <2> DEFINE u == s \o t
             v == Numbers(m + n)
  <2>1. Len(s) = m /\ \A i \in 1 .. m : s[i] = i
    BY <1>7 DEF Numbers
  <2>2. v \in Seq(Nat) /\ Len(v) = m + n /\ \A i \in 1 .. m + n : v[i] = i
    BY <1>5 DEF Numbers
  <2>3. /\ u \in Seq(Nat) /\ Len(u) = m + n
        /\ \A i \in 1 .. m : u[i] = s[i]
        /\ \A i \in 1 .. n : u[m + i] = t[i]
        /\ \A k \in 1 .. m + n : k \in 1 .. m \/ (k - m \in 1 .. n /\ k = m + (k - m))
    <3> DEFINE h == Len(s)
               l == Len(t)
    <3>1. /\ u \in Seq(Nat) /\ Len(u) = h + l
          /\ \A i \in 1 .. h : u[i] = s[i]
          /\ \A i \in 1 .. l : u[h + i] = t[i]
          /\ \A k \in 1 .. h + l : k \in 1 .. h \/ (k - h \in 1 .. l /\ k = h + (k - h))
      BY <1>1, ConcatParts
    <3>2. h = m /\ l = n
      BY <1>1, <2>1
    <3> HIDE DEF h, l, u
    <3>3. QED BY <3>1, <3>2
  <2> HIDE DEF u, v
  <2>4. ASSUME NEW k \in 1 .. m + n PROVE u[k] = k
    <3>1. CASE k \in 1 .. m
      BY <2>1, <2>3, <3>1
    <3>2. CASE k - m \in 1 .. n /\ k = m + (k - m)
      BY <1>1, <2>3, <3>2
    <3>3. QED BY <2>3, <3>1, <3>2
  <2>5. u = v
    BY <2>2, <2>3, <2>4, SeqEqual
  <2>6. QED BY <2>5 DEF u, v
<1>8. QED BY <1>1, <1>6, <1>7

LEMMA ConcatNat ==
  ASSUME NEW s \in Seq(Nat), NEW t \in Seq(Nat), NEW u \in Seq(Nat)
  PROVE  (s \o t) \o u = s \o (t \o u)
BY ConcatAssociative, SMTT(30)

LEMMA FileInit == BlockInit => FileInv
<1> SUFFICES ASSUME BlockInit PROVE FileInv
  OBVIOUS
<1>1. Bytes = <<>>
  BY EmptySeq, ConcatEmptySeq DEF BlockInit, Bytes
<1>2. Increasing(<<>>) /\ UpTo(<<>>, 0)
  BY DEF Increasing, UpTo
<1>3. Numbers(0) = <<>>
  BY DEF Numbers
<1>4. <<>> \in Seq(Nat) /\ 0 \in Nat /\ FALSE \in BOOLEAN
  BY EmptySeq
<1>5. /\ file = <<>> /\ block = <<>> /\ data = <<>>
      /\ saved = 0 /\ failed = FALSE
  BY DEF BlockInit
<1>6. Increasing(Bytes) /\ UpTo(Bytes, 0) /\ Bytes = Numbers(0)
  BY <1>1, <1>2, <1>3
<1> QED BY <1>4, <1>5, <1>6 DEF FileInv

LEMMA FileSave ==
  ASSUME FileInv, NEW n \in 1 .. BlockSize, SaveData(n)
  PROVE  FileInv'
<1> DEFINE t == [i \in 1 .. n |-> saved + i]
<1>1. n \in Nat /\ saved' = saved + n /\ saved + n \in Nat
  BY BlockFileAssumption DEF FileInv, SaveData
<1>2. data = <<>> /\ file' = file /\ failed' = failed
  BY DEF SaveData
<1>3. file \in Seq(Nat) /\ block \in Seq(Nat) /\ file \o block \in Seq(Nat)
  BY ConcatProperties DEF FileInv
<1>4. Bytes = file \o block
  BY <1>2, <1>3, ConcatEmptySeq DEF Bytes
<1>5. /\ t \in Seq(Nat) /\ Increasing(Bytes \o t) /\ UpTo(Bytes \o t, saved + n)
      /\ Bytes = Numbers(saved) => Bytes \o t = Numbers(saved + n)
  <2>1. Increasing(Bytes) /\ UpTo(Bytes, saved) /\ saved \in Nat /\ Bytes \in Seq(Nat)
    BY <1>3, <1>4 DEF FileInv
  <2>2. t = [i \in 1 .. n |-> saved + i]
    OBVIOUS
  <2> HIDE DEF t
  <2> DEFINE b == Bytes
  <2> HIDE DEF b
  <2>3. b \in Seq(Nat) /\ Increasing(b) /\ UpTo(b, saved) /\ n \in Nat /\ saved \in Nat
    BY <1>1, <2>1 DEF b
  <2>4. /\ t \in Seq(Nat) /\ Increasing(b \o t) /\ UpTo(b \o t, saved + n)
        /\ b = Numbers(saved) => b \o t = Numbers(saved + n)
    BY <2>2, <2>3, SaveMore
  <2>5. QED BY <2>4 DEF b
<1> HIDE DEF t
<1>6. Bytes' = Bytes \o t /\ block' \in Seq(Nat) /\ data' \in Seq(Nat)
  <2>1. CASE block' = block \o t /\ data' = data
    <3>1. block \o t \in Seq(Nat) /\ (file \o block) \o t \in Seq(Nat)
      BY <1>3, <1>5, ConcatProperties
    <3>2. (file \o (block \o t)) = (file \o block) \o t
      BY <1>3, <1>5, ConcatNat
    <3>3. Bytes' = file \o (block \o t) \o <<>>
      BY <1>2, <2>1 DEF Bytes
    <3>4. Bytes' = (file \o block) \o t
      BY <3>1, <3>2, <3>3, ConcatEmptySeq
    <3>5. QED BY <1>2, <1>4, <2>1, <3>1, <3>4, EmptySeq
  <2>2. CASE data' = t /\ block' = block
    BY <1>2, <1>3, <1>4, <1>5, <2>2 DEF Bytes
  <2>3. QED BY <2>1, <2>2 DEF SaveData, t
<1>7. QED BY <1>1, <1>2, <1>3, <1>5, <1>6 DEF FileInv

LEMMA FileFlush ==
  ASSUME FileInv, FlushBlock, UNCHANGED <<data, saved>>
  PROVE  FileInv'
<1>1. CASE block = <<>>
  BY <1>1 DEF FlushBlock, FileInv, Bytes
<1>2. CASE block # <<>>
  <2>1. WriteBlock /\ block' = <<>> /\ data' = data /\ saved' = saved
    BY <1>2 DEF FlushBlock
  <2>2. PICK n \in 0 .. Len(block) : /\ file' = file \o SubSeq(block, 1, n)
                                     /\ failed' = (failed \/ n < Len(block))
    BY <2>1 DEF WriteBlock
  <2> DEFINE s == SubSeq(block, 1, n)
  <2>3. file \in Seq(Nat) /\ block \in Seq(Nat) /\ data \in Seq(Nat) /\ saved \in Nat
    BY DEF FileInv
  <2>4. s \in Seq(Nat) /\ (n = Len(block) => s = block)
    BY <2>3, FirstPart, SubSeqFull
  <2>5. Increasing(file \o s \o data) /\ UpTo(file \o s \o data, saved)
    <3>1. Increasing(file \o block \o data) /\ UpTo(file \o block \o data, saved)
      BY DEF FileInv, Bytes
    <3>2. Increasing(file \o SubSeq(block, 1, n) \o data) /\ UpTo(file \o SubSeq(block, 1, n) \o data, saved)
      BY <2>3, <3>1, CutMiddle
    <3>3. QED BY <3>2
  <2>6. failed' \in BOOLEAN /\ (~failed' => n = Len(block) /\ ~failed)
    <3> DEFINE l == Len(block)
               short == n < l
    <3>1. l \in Nat /\ n \in 0 .. l
      BY <2>3, LenProperties
    <3> HIDE DEF l
    <3>2. short \/ n = l
      BY <3>1
    <3>3. (failed' = (failed \/ short)) /\ failed \in BOOLEAN
      BY <2>2 DEF FileInv, l
    <3> HIDE DEF short
    <3>4. QED BY <3>2, <3>3, Zenon DEF l
  <2> HIDE DEF s
  <2>7. file \o s \in Seq(Nat)
    BY <2>3, <2>4, ConcatProperties
  <2>8. Bytes' = file \o s \o data
    <3>1. Bytes' = (file \o s) \o <<>> \o data
      BY <2>1, <2>2 DEF Bytes, s
    <3>2. QED BY <2>7, <3>1, ConcatEmptySeq
  <2>9. failed' \/ Bytes' = Numbers(saved)
    BY <2>4, <2>6, <2>8 DEF FileInv, Bytes
  <2>10. file' \in Seq(Nat) /\ block' \in Seq(Nat) /\ data' \in Seq(Nat)
    BY <2>1, <2>2, <2>3, <2>7, EmptySeq DEF s
  <2>11. QED BY <2>1, <2>3, <2>5, <2>6, <2>8, <2>9, <2>10 DEF FileInv
<1>3. QED BY <1>1, <1>2

LEMMA FileRetry ==
  ASSUME FileInv, Retry
  PROVE  FileInv'
<1>1. /\ block' = block \o data /\ data' = <<>>
      /\ file' = file /\ saved' = saved /\ failed' = failed
  BY DEF Retry
<1>2. file \in Seq(Nat) /\ block \in Seq(Nat) /\ data \in Seq(Nat)
  BY DEF FileInv
<1>3. block \o data \in Seq(Nat) /\ file \o (block \o data) \in Seq(Nat)
  BY <1>2, ConcatProperties
<1>4. file \o (block \o data) = Bytes
  BY <1>2, ConcatNat DEF Bytes
<1>5. Bytes' = (file \o (block \o data)) \o <<>>
  BY <1>1 DEF Bytes
<1>6. Bytes' = Bytes
  BY <1>3, <1>4, <1>5, ConcatEmptySeq
<1>7. block' \in Seq(Nat) /\ data' \in Seq(Nat)
  BY <1>1, <1>3, EmptySeq
<1>8. QED BY <1>1, <1>6, <1>7 DEF FileInv

LEMMA FileStep == FileInv /\ [LibraryNext]_libraryVars => FileInv'
<1> SUFFICES ASSUME FileInv, [LibraryNext]_libraryVars PROVE FileInv'
  OBVIOUS
<1>1. CASE UNCHANGED blockVars
  BY <1>1 DEF blockVars, FileInv, Bytes
<1>2. ASSUME NEW n \in 1 .. BlockSize, SaveData(n) PROVE FileInv'
  BY <1>2, FileSave
<1>3. CASE FlushAndRetry \/ Flush \/ CloseFile
  BY <1>3, FileFlush DEF FlushAndRetry, Flush, CloseFile
<1>4. CASE Retry
  BY <1>4, FileRetry
<1>5. QED BY <1>1, <1>2, <1>3, <1>4 DEF LibraryNext, libraryVars, BlockNext

LEMMA FileSound == FileInv => SavedInOrder
<1> SUFFICES ASSUME FileInv PROVE SavedInOrder
  OBVIOUS
<1> DEFINE l == Len(Bytes)
<1>1. l \in Nat
  BY ConcatProperties, LenProperties DEF FileInv, Bytes
<1>2. \A i, j \in 1 .. l : i < j => Bytes[i] < Bytes[j]
  BY DEF FileInv, Increasing
<1> HIDE DEF l
<1>3. \A i \in 1 .. l - 1 : i \in 1 .. l /\ i + 1 \in 1 .. l /\ i < i + 1
  BY <1>1
<1>4. \A i \in 1 .. l - 1 : Bytes[i] < Bytes[i+1]
  BY <1>2, <1>3
<1>5. QED BY <1>4 DEF FileInv, SavedInOrder, Bytes, Numbers, l

(* What the file, the block and saveData have, in this order, is in the    *)
(* order it was saved and nothing twice, however much of every write is    *)
(* lost; and it is all, if no write has failed.                            *)
THEOREM FilesStayInOrder == LibrarySpec => []SavedInOrder
<1>1. LibraryInit => FileInv
  BY FileInit DEF LibraryInit
<1>2. QED BY <1>1, FileStep, FileSound, PTL DEF LibrarySpec

-----------------------------------------------------------------------------
(***************************************************************************)
(* The request pool: ways around the pool.                                 *)
(***************************************************************************)
LEMMA PoolSizes ==
  /\ ObjCount \in Nat /\ ObjCount >= 1 /\ ObjLag \in Nat
  /\ IsFiniteSet(Users) /\ Cardinality(Users) \in Nat
  /\ Cardinality(Users) + ObjLag <= ObjCount
<1>1. /\ ObjCount \in Nat \ {0} /\ ObjLag \in Nat /\ IsFiniteSet(Users)
      /\ Cardinality(Users) + ObjLag <= ObjCount
  BY ObjectPoolAssumption
<1>2. Cardinality(Users) \in Nat
  BY <1>1, FS_CardinalityType
<1>3. QED BY <1>1, <1>2

LEMMA NextObjValue ==
  ASSUME NEW i \in Objs
  PROVE  NextObj(i) \in Objs /\ NextObj(i) = IF i + 1 = ObjCount THEN 0 ELSE i + 1
<1>1. i \in Int /\ 0 <= i /\ i <= ObjCount - 1 /\ ObjCount \in Nat
  BY PoolSizes DEF Objs
<1>2. CASE i + 1 = ObjCount
  BY <1>1, <1>2 DEF NextObj, Objs
<1>3. CASE i + 1 < ObjCount
  BY <1>1, <1>3 DEF NextObj, Objs
<1>4. QED BY <1>1, <1>2, <1>3

LEMMA OffRange ==
  ASSUME NEW a \in Objs, NEW x \in Objs
  PROVE  Off(a, x) \in Int /\ 0 <= Off(a, x) /\ Off(a, x) <= ObjCount - 1
BY PoolSizes DEF Objs, Off

LEMMA OffSame ==
  ASSUME NEW a \in Objs, NEW x \in Objs, NEW y \in Objs, Off(a, x) = Off(a, y)
  PROVE  x = y
BY PoolSizes DEF Objs, Off

(* From a by way of b.                                                     *)
LEMMA OffVia ==
  ASSUME NEW a \in Objs, NEW b \in Objs, NEW x \in Objs
  PROVE  /\ Off(a, b) <= Off(a, x) => Off(b, x) = Off(a, x) - Off(a, b)
         /\ Off(a, b) + Off(b, x) < ObjCount => Off(a, x) = Off(a, b) + Off(b, x)
BY PoolSizes DEF Objs, Off

LEMMA OffNext ==
  ASSUME NEW a \in Objs, NEW c \in Objs
  PROVE  /\ NextObj(c) = a <=> Off(a, c) = ObjCount - 1
         /\ NextObj(c) # a => Off(a, NextObj(c)) = Off(a, c) + 1
BY PoolSizes, NextObjValue DEF Objs, Off

LEMMA ArcNone == ASSUME NEW a \in Objs PROVE Arc(a, a) = {}
<1>1. Off(a, a) = 0
  BY PoolSizes DEF Objs, Off
<1>2. \A x \in Objs : ~(Off(a, x) < Off(a, a))
  BY <1>1, OffRange
<1>3. QED BY <1>2 DEF Arc

(* One more object: if S is not all of the pool and has the way from a to  *)
(* b, from b to c, and c, the way from a to the next of c does not come    *)
(* back to a.                                                              *)
LEMMA ArcExtend ==
  ASSUME NEW S, S \subseteq Objs, S # Objs,
         NEW a \in Objs, NEW b \in Objs, NEW c \in S,
         Arc(a, b) \subseteq S, Arc(b, c) \subseteq S
  PROVE  NextObj(c) # a /\ Arc(a, NextObj(c)) \subseteq S
<1> DEFINE p == Off(a, b)
           q == Off(b, c)
<1>1. c \in Objs
  OBVIOUS
<1>2. p \in Int /\ q \in Int /\ 0 <= p /\ 0 <= q /\ ObjCount \in Int
  BY <1>1, OffRange, PoolSizes
<1>3. ASSUME NEW x \in Objs, Off(a, x) <= p + q PROVE x \in S
  <2>1. Off(a, x) \in Int /\ Off(b, x) \in Int
    BY OffRange
  <2>2. CASE Off(a, x) < p
    BY <2>2 DEF Arc
  <2>3. CASE p <= Off(a, x)
    <3>1. Off(b, x) = Off(a, x) - p
      BY <2>3, OffVia
    <3>2. Off(b, x) < q \/ Off(b, x) = q
      BY <1>2, <1>3, <2>1, <3>1
    <3>3. CASE Off(b, x) < q
      BY <3>3 DEF Arc
    <3>4. CASE Off(b, x) = q
      BY <1>1, <3>4, OffSame
    <3>5. QED BY <3>2, <3>3, <3>4
  <2>4. QED BY <1>2, <2>1, <2>2, <2>3
<1>4. PICK y \in Objs : y \notin S
  OBVIOUS
<1>5. p + q < ObjCount - 1
  <2>1. ~(Off(a, y) <= p + q) /\ Off(a, y) \in Int /\ Off(a, y) <= ObjCount - 1
    BY <1>3, <1>4, OffRange
  <2>2. QED BY <1>2, <2>1
<1>6. Off(a, c) = p + q
  <2>1. p + q < ObjCount
    BY <1>2, <1>5
  <2>2. QED BY <1>1, <2>1, OffVia
<1> HIDE DEF p, q
<1>7. Off(a, c) # ObjCount - 1
  BY <1>2, <1>5, <1>6
<1>8. NextObj(c) # a /\ Off(a, NextObj(c)) = Off(a, c) + 1
  BY <1>1, <1>7, OffNext
<1>9. ASSUME NEW x \in Objs, Off(a, x) < Off(a, NextObj(c)) PROVE x \in S
  <2>1. Off(a, x) \in Int
    BY OffRange
  <2>2. Off(a, x) <= p + q
    BY <1>2, <1>6, <1>8, <1>9, <2>1
  <2>3. QED BY <1>3, <2>2
<1>10. QED BY <1>8, <1>9 DEF Arc

(* No way from a, however long, has the object before a.                   *)
LEMMA ArcShort ==
  ASSUME NEW a \in Objs, NEW b \in Objs, NEW c \in Objs, NextObj(c) = a
  PROVE  c \notin Arc(a, b)
<1>1. Off(a, c) = ObjCount - 1 /\ Off(a, b) <= ObjCount - 1
  BY OffNext, OffRange
<1>2. ~(Off(a, c) < Off(a, b))
  BY <1>1, OffRange, PoolSizes
<1>3. QED BY <1>2 DEF Arc

LEMMA ObjsFinite ==
  /\ IsFiniteSet(Objs) /\ Cardinality(Objs) = ObjCount
  /\ \A S \in SUBSET Objs : IsFiniteSet(S) /\ Cardinality(S) \in Nat
<1>1. 0 \in Int /\ ObjCount - 1 \in Int /\ ~(0 > ObjCount - 1) /\ ObjCount - 1 - 0 + 1 = ObjCount
  BY PoolSizes
<1>2. IsFiniteSet(Objs) /\ Cardinality(Objs) = ObjCount
  BY <1>1, FS_Interval DEF Objs
<1>3. \A S \in SUBSET Objs : IsFiniteSet(S)
  BY <1>2, FS_Subset
<1>4. QED BY <1>2, <1>3, FS_CardinalityType

LEMMA ObjsMore ==
  ASSUME NEW S \in SUBSET Objs, NEW x \in Objs
  PROVE  /\ S \cup {x} \in SUBSET Objs /\ Cardinality(S) \in Nat /\ Cardinality(S \cup {x}) \in Nat
         /\ Cardinality(S \cup {x}) <= Cardinality(S) + 1
<1>1. IsFiniteSet(S) /\ Cardinality(S) \in Nat
  BY ObjsFinite
<1>2. Cardinality(S \cup {x}) = IF x \in S THEN Cardinality(S) ELSE Cardinality(S) + 1
  BY <1>1, FS_AddElement
<1>3. QED BY <1>1, <1>2

LEMMA ObjsNotAll ==
  ASSUME NEW S \in SUBSET Objs, Cardinality(S) < ObjCount
  PROVE  S # Objs
BY ObjsFinite, PoolSizes

(* A user that has no object leaves one for another.                       *)
LEMMA HeldFew ==
  ASSUME ObjectTypes, NEW u \in Users, u \notin Holders
  PROVE  /\ HeldObjs \in SUBSET Objs
         /\ Cardinality(HeldObjs) \in Nat /\ Cardinality(HeldObjs) < Cardinality(Users)
         /\ \A w \in Holders : Cardinality(HeldObjs \ {obj[w]}) + 2 <= Cardinality(Users)
<1>1. HeldObjs \in SUBSET Objs
  BY DEF HeldObjs, Holders, ObjectTypes
<1>2. IsFiniteSet(HeldObjs) /\ Cardinality(HeldObjs) \in Nat
  BY <1>1, ObjsFinite
<1>3. IsFiniteSet(Users) /\ Holders \in SUBSET Users /\ Holders # Users
  BY PoolSizes DEF Holders
<1>4. /\ IsFiniteSet(Holders) /\ Cardinality(Holders) <= Cardinality(Users)
      /\ Cardinality(Users) # Cardinality(Holders)
  BY <1>3, FS_Subset
<1>5. Cardinality(Holders) \in Nat
  BY <1>4, FS_CardinalityType
<1>6. Cardinality(HeldObjs) <= Cardinality(Holders)
  <2> DEFINE f == [w \in Holders |-> obj[w]]
  <2>1. f \in Surjection(Holders, HeldObjs)
    BY DEF Surjection, HeldObjs
  <2>2. ExistsSurjection(Holders, HeldObjs)
    BY <2>1 DEF ExistsSurjection
  <2>3. ASSUME NEW S, NEW T, IsFiniteSet(S), NEW g \in Surjection(S, T) PROVE Cardinality(T) <= Cardinality(S)
    BY <2>3, FS_Surjection
  <2> HIDE DEF f
  <2>4. QED BY <1>4, <2>1, <2>3
<1>7. Cardinality(HeldObjs) < Cardinality(Users)
  BY <1>2, <1>4, <1>5, <1>6, PoolSizes
<1>8. ASSUME NEW w \in Holders PROVE Cardinality(HeldObjs \ {obj[w]}) + 2 <= Cardinality(Users)
  <2>1. obj[w] \in HeldObjs
    BY DEF HeldObjs
  <2>2. Cardinality(HeldObjs \ {obj[w]}) = Cardinality(HeldObjs) - 1
    BY <1>2, <2>1, FS_RemoveElement
  <2>3. QED BY <1>2, <1>7, <2>2, PoolSizes
<1>9. QED BY <1>1, <1>2, <1>7, <1>8

-----------------------------------------------------------------------------
(***************************************************************************)
(* The request pool: the steps.                                            *)
(***************************************************************************)
LEMMA ObjectTypesStep ==
  ASSUME ObjectTypes, [ObjectNext]_objectVars
  PROVE  ObjectTypes'
<1>1. 0 \in Objs /\ 0 \in 0 .. ObjLag
  BY PoolSizes DEF Objs
<1>2. \A i \in Objs : NextObj(i) \in Objs
  BY NextObjValue
<1>3. CASE UNCHANGED objectVars
  BY <1>3 DEF objectVars, ObjectTypes
<1>4. ASSUME NEW u \in Users, ReadIndex(u) \/ SkipUsed(u) \/ FoundUnused(u) \/ CasFailed(u)
      PROVE  ObjectTypes'
  BY <1>1, <1>2, <1>4 DEF ObjectTypes, ReadIndex, SkipUsed, FoundUnused, CasFailed, UserGoes
<1>5. ASSUME NEW u \in Users, CasObj(u) PROVE ObjectTypes'
  <2>1. \A v \in Inside \ {u} : objLag[v] + 1 \in 0 .. ObjLag
    <3>1. \A k \in 0 .. ObjLag : k < ObjLag => k + 1 \in 0 .. ObjLag
      BY PoolSizes
    <3>2. QED BY <1>5, <3>1 DEF CasObj, SwapIndex, ObjectTypes, Inside
  <2>2. objLag' \in [Users -> 0 .. ObjLag]
    BY <1>5, <2>1 DEF CasObj, SwapIndex, ObjectTypes
  <2>3. QED BY <1>5, <2>2 DEF CasObj, SwapIndex, ObjectTypes, UserGoes
<1>6. ASSUME NEW u \in Users, MarkUsed(u) \/ ReleaseObj(u) PROVE ObjectTypes'
  BY <1>1, <1>6 DEF ObjectTypes, MarkUsed, ReleaseObj, UserGoes
<1>7. QED BY <1>3, <1>4, <1>5, <1>6 DEF ObjectNext

(* Who swaps the index is fresh, and its object is nobody's.               *)
LEMMA SwapperIsFresh ==
  ASSUME ObjectTypes, PassInv, NEW w \in Users, CasObj(w)
  PROVE  w \in Fresh /\ obj[w] \notin HeldObjs
<1>1. user[w] = "swap" /\ w \in Looking /\ curIdx = seen[w]
  BY DEF CasObj, UserGoes, Looking
<1>2. PICK E \in SUBSET Objs : FreshOk(E) /\ \A v \in Looking \ Fresh : BehindOk(E, v)
  BY DEF PassInv
<1>3. w \in Fresh
  BY <1>1, <1>2 DEF BehindOk
<1>4. QED BY <1>1, <1>2, <1>3 DEF FreshOk

LEMMA OwnStep ==
  ASSUME ObjectInv, [ObjectNext]_objectVars
  PROVE  OwnInv'
<1> USE DEF ObjectInv
<1>1. CASE UNCHANGED objectVars
  BY <1>1 DEF objectVars, OwnInv, Holders
<1>2. ASSUME NEW u \in Users, ReadIndex(u) \/ SkipUsed(u) PROVE OwnInv'
  <2>1. /\ user[u] \in {"idle", "retry", "scan"} /\ user' = [user EXCEPT ![u] = "scan"]
        /\ marked' = marked /\ \A v \in Users \ {u} : obj'[v] = obj[v] /\ follow'[v] = follow[v]
        /\ follow'[u] = NextObj(obj'[u])
    <3>1. CASE ReadIndex(u)
      BY <3>1 DEF ReadIndex, UserGoes, ObjectTypes
    <3>2. CASE SkipUsed(u)
      BY <3>2 DEF SkipUsed, UserGoes, ObjectTypes
    <3>3. QED BY <1>2, <3>1, <3>2
  <2>2. \A v \in Users : user'[v] = IF v = u THEN "scan" ELSE user[v]
    BY <2>1 DEF ObjectTypes
  <2>3. QED BY <2>1, <2>2 DEF OwnInv, Holders
<1>3. ASSUME NEW u \in Users, FoundUnused(u) \/ CasFailed(u) PROVE OwnInv'
  <2>1. /\ user[u] \in {"scan", "swap"}
        /\ \E to \in {"swap", "retry"} : /\ user' = [user EXCEPT ![u] = to]
                                         /\ to = "swap" => user[u] = "scan"
        /\ UNCHANGED <<marked, obj, follow>>
    BY <1>3 DEF FoundUnused, CasFailed, UserGoes
  <2>2. PICK to \in {"swap", "retry"} : /\ user' = [user EXCEPT ![u] = to]
                                        /\ to = "swap" => user[u] = "scan"
    BY <2>1
  <2>3. \A v \in Users : user'[v] = IF v = u THEN to ELSE user[v]
    BY <2>2 DEF ObjectTypes
  <2>4. QED BY <2>1, <2>2, <2>3 DEF OwnInv, Holders
<1>4. ASSUME NEW u \in Users, CasObj(u) PROVE OwnInv'
  <2>1. /\ user[u] = "swap" /\ user' = [user EXCEPT ![u] = "mark"]
        /\ UNCHANGED <<marked, obj, follow>>
    BY <1>4 DEF CasObj, UserGoes
  <2>2. \A v \in Users : user'[v] = IF v = u THEN "mark" ELSE user[v]
    BY <2>1 DEF ObjectTypes
  <2>3. \A v \in Holders : obj[v] # obj[u]
    BY <1>4, SwapperIsFresh DEF HeldObjs
  <2>4. Holders' = Holders \cup {u}
    BY <2>2 DEF Holders
  <2>5. \A v, x \in Holders' : obj'[v] = obj'[x] => v = x
    BY <2>1, <2>3, <2>4 DEF OwnInv
  <2>6. QED BY <2>1, <2>2, <2>5 DEF OwnInv
<1>5. ASSUME NEW u \in Users, MarkUsed(u) PROVE OwnInv'
  <2>1. /\ user[u] = "mark" /\ user' = [user EXCEPT ![u] = "has"]
        /\ marked' = marked \cup {obj[u]} /\ obj' = obj
        /\ \A v \in Users \ {u} : follow'[v] = follow[v]
    BY <1>5 DEF MarkUsed, UserGoes, ObjectTypes
  <2>2. \A v \in Users : user'[v] = IF v = u THEN "has" ELSE user[v]
    BY <2>1 DEF ObjectTypes
  <2>3. Holders' = Holders
    BY <2>1, <2>2 DEF Holders
  <2>4. QED BY <2>1, <2>2, <2>3 DEF OwnInv
<1>6. ASSUME NEW u \in Users, ReleaseObj(u) PROVE OwnInv'
  <2>1. /\ user[u] = "has" /\ user' = [user EXCEPT ![u] = "idle"]
        /\ marked' = marked \ {obj[u]} /\ follow' = follow
        /\ \A v \in Users \ {u} : obj'[v] = obj[v]
    BY <1>6 DEF ReleaseObj, UserGoes, ObjectTypes
  <2>2. \A v \in Users : user'[v] = IF v = u THEN "idle" ELSE user[v]
    BY <2>1 DEF ObjectTypes
  <2>3. Holders' = Holders \ {u} /\ u \in Holders
    BY <2>1, <2>2 DEF Holders
  <2>4. \A v \in Users : user[v] = "has" => v \in Holders
    BY DEF Holders
  <2>5. \A v \in Users : user'[v] = "has" => obj'[v] \in marked'
    <3>1. ASSUME NEW v \in Users, user'[v] = "has" PROVE obj'[v] \in marked'
      <4>1. v # u /\ user[v] = "has" /\ obj'[v] = obj[v]
        BY <2>1, <2>2, <3>1
      <4>2. obj[v] # obj[u] /\ obj[v] \in marked
        BY <2>3, <2>4, <4>1 DEF OwnInv
      <4>3. QED BY <2>1, <4>1, <4>2
    <3>2. QED BY <3>1
  <2>6. \A x \in marked' : \E v \in Users : user'[v] = "has" /\ obj'[v] = x
    <3>1. ASSUME NEW x \in marked' PROVE \E v \in Users : user'[v] = "has" /\ obj'[v] = x
      <4>1. x \in marked /\ x # obj[u]
        BY <2>1
      <4>2. PICK v \in Users : user[v] = "has" /\ obj[v] = x
        BY <4>1 DEF OwnInv
      <4>3. QED BY <2>1, <2>2, <4>1, <4>2
    <3>2. QED BY <3>1
  <2>7. \A v, w \in Holders' : obj'[v] = obj'[w] => v = w
    BY <2>1, <2>3 DEF OwnInv, Holders
  <2>8. \A v \in Users : user'[v] \in {"scan", "swap", "mark"} => follow'[v] = NextObj(obj'[v])
    BY <2>1, <2>2 DEF OwnInv
  <2>9. QED BY <2>5, <2>6, <2>7, <2>8 DEF OwnInv
<1>7. QED BY <1>1, <1>2, <1>3, <1>4, <1>5, <1>6 DEF ObjectNext

(* What keeps PassInv: the index stays, nobody takes an object, nobody     *)
(* becomes fresh.                                                          *)
LEMMA PassKept ==
  ASSUME NEW E \in SUBSET Objs,
         \A v \in Looking \ Fresh : BehindOk(E, v),
         \A u \in Users : user[u] = "mark" => MarkOk(E, u),
         FreshOk(E)', curIdx' = curIdx, HeldObjs' \subseteq HeldObjs, Fresh' # {} => Fresh # {},
         \A v \in Looking' \ Fresh' : v \in Looking \ Fresh /\ seen'[v] = seen[v] /\ objLag'[v] = objLag[v],
         \A u \in Users : user'[u] = "mark" => /\ user[u] = "mark" /\ obj'[u] = obj[u]
                                               /\ follow'[u] = follow[u] /\ objLag'[u] = objLag[u]
  PROVE  PassInv'
<1>1. ASSUME NEW v \in Looking' \ Fresh' PROVE BehindOk(E, v)'
  <2>1. BehindOk(E, v)
    OBVIOUS
  <2>2. QED BY <2>1 DEF BehindOk
<1>2. ASSUME NEW u \in Users, user'[u] = "mark" PROVE MarkOk(E, u)'
  <2>1. /\ MarkOk(E, u) /\ obj'[u] = obj[u]
        /\ follow'[u] = follow[u] /\ objLag'[u] = objLag[u]
    BY <1>2
  <2>2. HeldObjs' \ {obj'[u]} \subseteq HeldObjs \ {obj[u]}
    BY <2>1
  <2>3. QED BY <2>1, <2>2 DEF MarkOk
<1>3. QED BY <1>1, <1>2 DEF PassInv

LEMMA PassRead ==
  ASSUME ObjectInv, NEW u \in Users, ReadIndex(u)
  PROVE  PassInv'
<1> USE DEF ObjectInv
<1>1. /\ user[u] \in {"idle", "retry"} /\ user' = [user EXCEPT ![u] = "scan"]
      /\ seen'[u] = curIdx /\ obj'[u] = curIdx /\ objLag'[u] = 0 /\ curIdx' = curIdx
      /\ \A v \in Users \ {u} : /\ seen'[v] = seen[v] /\ obj'[v] = obj[v]
                                /\ follow'[v] = follow[v] /\ objLag'[v] = objLag[v]
  BY DEF ReadIndex, UserGoes, ObjectTypes
<1>2. \A v \in Users : user'[v] = IF v = u THEN "scan" ELSE user[v]
  BY <1>1 DEF ObjectTypes
<1>3. Holders' = Holders /\ u \notin Holders /\ HeldObjs' = HeldObjs
  <2>1. Holders' = Holders /\ u \notin Holders
    BY <1>1, <1>2 DEF Holders
  <2>2. \A v \in Holders : obj'[v] = obj[v]
    BY <1>1, <2>1 DEF Holders
  <2>3. QED BY <2>1, <2>2 DEF HeldObjs
<1>4. /\ Looking' = Looking \cup {u} /\ u \notin Looking
      /\ Fresh' = Fresh \cup {u} /\ Looking' \ Fresh' = Looking \ Fresh
  <2>1. Looking' = Looking \cup {u} /\ u \notin Looking
    BY <1>1, <1>2 DEF Looking
  <2>2. Fresh' = Fresh \cup {u}
    BY <1>1, <2>1 DEF Fresh, Looking
  <2>3. QED BY <2>1, <2>2 DEF Fresh
<1>5. PICK E \in SUBSET Objs : /\ FreshOk(E)
                               /\ \A v \in Looking \ Fresh : BehindOk(E, v)
                               /\ \A w \in Users : user[w] = "mark" => MarkOk(E, w)
  BY DEF PassInv
<1>6. curIdx \in Objs /\ Arc(curIdx, curIdx) = {}
  BY ArcNone DEF ObjectTypes
<1>7. CASE Fresh # {}
  <2>1. FreshOk(E)'
    <3>1. Cardinality(E) < Cardinality(Users) /\ HeldObjs' \subseteq E
      BY <1>3, <1>5, <1>7 DEF FreshOk
    <3>2. ASSUME NEW v \in Fresh'
          PROVE  /\ seen'[v] = curIdx' /\ Arc(curIdx', obj'[v]) \subseteq E
                 /\ user'[v] = "swap" => obj'[v] \notin HeldObjs'
      <4>1. CASE v = u
        BY <1>1, <1>2, <1>6, <4>1
      <4>2. CASE v # u
        <5>1. v \in Fresh /\ v \in Users
          BY <1>4, <4>2 DEF Fresh, Looking
        <5>2. QED BY <1>1, <1>2, <1>3, <1>5, <4>2, <5>1 DEF FreshOk
      <4>3. QED BY <4>1, <4>2
    <3>3. QED BY <3>1, <3>2 DEF FreshOk
  <2>2. \A v \in Looking' \ Fresh' : /\ v \in Looking \ Fresh /\ seen'[v] = seen[v]
                                     /\ objLag'[v] = objLag[v]
    BY <1>1, <1>4 DEF Looking
  <2>3. \A v \in Users : user'[v] = "mark" => /\ user[v] = "mark" /\ obj'[v] = obj[v]
                                              /\ follow'[v] = follow[v] /\ objLag'[v] = objLag[v]
    BY <1>1, <1>2
  <2>4. QED BY <1>1, <1>3, <1>5, <1>7, <2>1, <2>2, <2>3, PassKept
<1>8. CASE Fresh = {}
  <2> DEFINE H == HeldObjs
  <2>1. /\ H \in SUBSET Objs /\ Cardinality(H) < Cardinality(Users)
        /\ \A w \in Holders : Cardinality(H \ {obj[w]}) + 2 <= Cardinality(Users)
    BY <1>3, HeldFew
  <2>2. H' = H
    BY <1>3
  <2> HIDE DEF H
  <2>3. ASSUME NEW S, S = H PROVE FreshOk(S)'
    <3>1. \A v \in Fresh' : v = u
      BY <1>4, <1>8
    <3>2. user'[u] = "scan"
      BY <1>2
    <3>3. QED BY <1>1, <1>6, <2>1, <2>2, <2>3, <3>1, <3>2 DEF FreshOk, H
  <2>4. ASSUME NEW S, S = H, NEW v \in Looking' \ Fresh' PROVE BehindOk(S, v)'
    <3>1. BehindOk(E, v) /\ seen'[v] = seen[v] /\ objLag'[v] = objLag[v]
      BY <1>1, <1>4, <1>5 DEF Looking
    <3>2. QED BY <1>1, <1>3, <2>4, <3>1 DEF BehindOk, H
  <2>5. ASSUME NEW S, S = H, NEW w \in Users, user'[w] = "mark" PROVE MarkOk(S, w)'
    <3>1. /\ w # u /\ user[w] = "mark" /\ MarkOk(E, w) /\ w \in Holders
          /\ obj'[w] = obj[w] /\ follow'[w] = follow[w] /\ objLag'[w] = objLag[w]
      BY <1>1, <1>2, <1>5, <2>5 DEF Holders
    <3>2. objLag[w] \in Nat /\ obj[w] \in Objs
      BY DEF ObjectTypes
    <3>3. CASE objLag[w] > 0
      <4>1. PICK W \in SUBSET Objs : /\ Cardinality(W) + 2 <= Cardinality(Users) + objLag[w]
                                     /\ HeldObjs \ {obj[w]} \subseteq W
                                     /\ Arc(follow[w], curIdx) \subseteq W
        BY <3>1, <3>3 DEF MarkOk
      <4>2. S \ {obj[w]} \subseteq W
        BY <2>5, <4>1 DEF H
      <4>3. ~(objLag'[w] = 0)
        BY <3>1, <3>2, <3>3
      <4>4. QED BY <1>1, <1>3, <3>1, <4>1, <4>2, <4>3 DEF MarkOk
    <3>4. CASE objLag[w] = 0
      <4>1. curIdx = follow[w]
        BY <3>1, <3>4 DEF MarkOk
      <4>2. Arc(follow[w], curIdx) = {}
        BY <1>6, <4>1
      <4> DEFINE W == H \ {obj[w]}
      <4>3. W \in SUBSET Objs /\ Cardinality(W) + 2 <= Cardinality(Users)
        BY <2>1, <3>1
      <4>4. HeldObjs \ {obj[w]} \subseteq W /\ S \ {obj[w]} \subseteq W
        BY <2>5 DEF H
      <4> HIDE DEF W
      <4>5. Cardinality(W) + 2 <= Cardinality(Users) + objLag'[w]
        <5>1. Cardinality(W) \in Nat
          BY <4>3, ObjsFinite
        <5>2. objLag'[w] = 0
          BY <3>1, <3>4
        <5>3. QED BY <4>3, <5>1, <5>2, PoolSizes
      <4>6. QED BY <1>1, <1>3, <3>1, <4>1, <4>2, <4>3, <4>4, <4>5 DEF MarkOk
    <3>5. QED BY <3>2, <3>3, <3>4
  <2>6. PICK S \in SUBSET Objs : S = H
    BY <2>1
  <2>7. QED BY <2>3, <2>4, <2>5, <2>6 DEF PassInv
<1>9. QED BY <1>7, <1>8

LEMMA PassSkip ==
  ASSUME ObjectInv, NEW u \in Users, SkipUsed(u)
  PROVE  PassInv'
<1> USE DEF ObjectInv
<1>1. /\ user[u] = "scan" /\ user' = user /\ UNCHANGED <<curIdx, marked, seen, objLag>>
      /\ obj'[u] = NextObj(obj[u]) /\ obj[u] \in marked
      /\ \A v \in Users \ {u} : obj'[v] = obj[v] /\ follow'[v] = follow[v]
  <2>1. follow[u] = NextObj(obj[u])
    BY DEF SkipUsed, UserGoes, OwnInv
  <2>2. user' = user
    BY DEF SkipUsed, UserGoes, ObjectTypes
  <2>3. QED BY <2>1, <2>2 DEF SkipUsed, UserGoes, ObjectTypes
<1>2. Holders' = Holders /\ u \notin Holders /\ Looking' = Looking /\ Fresh' = Fresh
  BY <1>1 DEF Holders, Looking, Fresh
<1>3. HeldObjs' = HeldObjs
  <2>1. \A v \in Holders : obj'[v] = obj[v]
    BY <1>1, <1>2 DEF Holders
  <2>2. QED BY <1>2, <2>1 DEF HeldObjs
<1>4. PICK E \in SUBSET Objs : /\ FreshOk(E)
                               /\ \A v \in Looking \ Fresh : BehindOk(E, v)
                               /\ \A w \in Users : user[w] = "mark" => MarkOk(E, w)
  BY DEF PassInv
<1>5. ASSUME u \in Fresh PROVE Arc(curIdx, obj'[u]) \subseteq E
  <2>1. Cardinality(E) < Cardinality(Users) /\ HeldObjs \subseteq E /\ Arc(curIdx, obj[u]) \subseteq E
    BY <1>4, <1>5 DEF FreshOk
  <2>2. obj[u] \in E
    <3>1. PICK w \in Users : user[w] = "has" /\ obj[w] = obj[u]
      BY <1>1 DEF OwnInv
    <3>2. obj[u] \in HeldObjs
      BY <3>1 DEF HeldObjs, Holders
    <3>3. QED BY <2>1, <3>2
  <2>3. Cardinality(E) < ObjCount
    BY <2>1, PoolSizes, ObjsFinite
  <2>4. E # Objs
    BY <2>3, ObjsNotAll
  <2>5. curIdx \in Objs /\ Arc(curIdx, curIdx) \subseteq E
    BY ArcNone DEF ObjectTypes
  <2>6. Arc(curIdx, NextObj(obj[u])) \subseteq E
    BY <2>1, <2>2, <2>4, <2>5, ArcExtend
  <2>7. QED BY <1>1, <2>6
<1>6. FreshOk(E)'
  <2>1. Fresh' # {} => Cardinality(E) < Cardinality(Users) /\ HeldObjs' \subseteq E
    BY <1>2, <1>3, <1>4 DEF FreshOk
  <2>2. ASSUME NEW v \in Fresh'
        PROVE  /\ seen'[v] = curIdx' /\ Arc(curIdx', obj'[v]) \subseteq E
               /\ user'[v] = "swap" => obj'[v] \notin HeldObjs'
    <3>1. v \in Fresh /\ v \in Users
      BY <1>2 DEF Fresh, Looking
    <3>2. CASE v = u
      BY <1>1, <1>4, <1>5, <3>1, <3>2 DEF FreshOk
    <3>3. CASE v # u
      BY <1>1, <1>3, <1>4, <3>1, <3>3 DEF FreshOk
    <3>4. QED BY <3>2, <3>3
  <2>3. QED BY <2>1, <2>2 DEF FreshOk
<1>7. \A v \in Looking' \ Fresh' : /\ v \in Looking \ Fresh /\ seen'[v] = seen[v]
                                   /\ objLag'[v] = objLag[v]
  BY <1>1, <1>2
<1>8. \A v \in Users : user'[v] = "mark" => /\ user[v] = "mark" /\ obj'[v] = obj[v]
                                            /\ follow'[v] = follow[v] /\ objLag'[v] = objLag[v]
  BY <1>1
<1>9. QED BY <1>1, <1>2, <1>3, <1>4, <1>6, <1>7, <1>8, PassKept

(* Who has taken an object and not yet marked it: a fresh one that comes   *)
(* to this object would have been all the way around.                      *)
LEMMA UnusedIsFree ==
  ASSUME ObjectInv, NEW u \in Fresh, obj[u] \notin marked
  PROVE  obj[u] \notin HeldObjs
<1> USE DEF ObjectInv
<1>1. SUFFICES ASSUME NEW w \in Holders, obj[w] = obj[u] PROVE FALSE
  BY DEF HeldObjs
<1>2. w \in Users /\ user[w] = "mark" /\ follow[w] = NextObj(obj[w])
  BY <1>1 DEF Holders, OwnInv
<1>3. PICK E \in SUBSET Objs : FreshOk(E) /\ MarkOk(E, w)
  BY <1>2 DEF PassInv
<1>4. PICK W \in SUBSET Objs :
         /\ Cardinality(W) + 2 <= Cardinality(Users) + objLag[w]
         /\ E \ {obj[w]} \subseteq W /\ Arc(follow[w], curIdx) \subseteq W
  BY <1>3 DEF MarkOk
<1>5. /\ curIdx \in Objs /\ follow[w] \in Objs /\ obj[w] \in Objs
      /\ objLag[w] \in Nat /\ objLag[w] <= ObjLag
  BY <1>2, PoolSizes DEF ObjectTypes
<1> DEFINE S == W \cup {obj[w]}
<1>6. /\ S \in SUBSET Objs /\ Cardinality(W) \in Nat /\ Cardinality(S) \in Nat
      /\ Cardinality(S) <= Cardinality(W) + 1
  BY <1>5, ObjsMore
<1>7. Cardinality(S) < ObjCount
  BY <1>4, <1>5, <1>6, PoolSizes
<1>8. S # Objs
  BY <1>6, <1>7, ObjsNotAll
<1>9. Arc(curIdx, obj[w]) \subseteq S
  BY <1>1, <1>3, <1>4 DEF FreshOk
<1>10. Arc(follow[w], curIdx) \subseteq S /\ obj[w] \in S
  BY <1>4
<1> HIDE DEF S
<1>11. NextObj(obj[w]) # follow[w]
  BY <1>5, <1>6, <1>8, <1>9, <1>10, ArcExtend
<1>12. QED BY <1>2, <1>11

LEMMA PassFound ==
  ASSUME ObjectInv, NEW u \in Users, FoundUnused(u) \/ CasFailed(u)
  PROVE  PassInv'
<1> USE DEF ObjectInv
<1>1. UNCHANGED <<curIdx, marked, seen, follow, obj, objLag>>
  BY DEF FoundUnused, CasFailed
<1>2. PICK E \in SUBSET Objs : /\ FreshOk(E)
                               /\ \A v \in Looking \ Fresh : BehindOk(E, v)
                               /\ \A w \in Users : user[w] = "mark" => MarkOk(E, w)
  BY DEF PassInv
<1>3. /\ user[u] \in {"scan", "swap"}
      /\ \A v \in Users \ {u} : user'[v] = user[v]
      /\ user'[u] \in {"swap", "retry"}
      /\ user'[u] = "swap" => obj[u] \notin marked
  BY DEF FoundUnused, CasFailed, UserGoes, ObjectTypes
<1>4. Looking' \subseteq Looking /\ u \in Looking
  BY <1>3 DEF Looking
<1>5. Fresh' \subseteq Fresh /\ Looking' \ Fresh' \subseteq Looking \ Fresh
  BY <1>1, <1>4 DEF Fresh
<1>6. HeldObjs' = HeldObjs
  <2>1. Holders' = Holders
    BY <1>3 DEF Holders
  <2>2. QED BY <1>1, <2>1 DEF HeldObjs
<1>7. FreshOk(E)'
  <2>1. Fresh' # {} => Cardinality(E) < Cardinality(Users) /\ HeldObjs' \subseteq E
    BY <1>2, <1>5, <1>6 DEF FreshOk
  <2>2. ASSUME NEW v \in Fresh' PROVE seen'[v] = curIdx' /\ Arc(curIdx', obj'[v]) \subseteq E
    BY <1>1, <1>2, <1>5 DEF FreshOk
  <2>3. ASSUME NEW v \in Fresh', user'[v] = "swap" PROVE obj'[v] \notin HeldObjs'
    <3>1. v \in Fresh /\ v \in Users
      BY <1>5 DEF Fresh, Looking
    <3>2. CASE v = u
      BY <1>1, <1>3, <1>6, <2>3, <3>1, <3>2, UnusedIsFree
    <3>3. CASE v # u
      BY <1>1, <1>2, <1>3, <1>6, <2>3, <3>1, <3>3 DEF FreshOk
    <3>4. QED BY <3>2, <3>3
  <2>4. QED BY <2>1, <2>2, <2>3 DEF FreshOk
<1>8. \A v \in Looking' \ Fresh' : /\ v \in Looking \ Fresh /\ seen'[v] = seen[v]
                                   /\ objLag'[v] = objLag[v]
  BY <1>1, <1>5
<1>9. \A v \in Users : user'[v] = "mark" => /\ user[v] = "mark" /\ obj'[v] = obj[v]
                                            /\ follow'[v] = follow[v] /\ objLag'[v] = objLag[v]
  BY <1>1, <1>3
<1>10. QED BY <1>1, <1>2, <1>5, <1>6, <1>7, <1>8, <1>9, PassKept

LEMMA PassOwn ==
  ASSUME ObjectInv, NEW u \in Users, MarkUsed(u) \/ ReleaseObj(u)
  PROVE  PassInv'
<1> USE DEF ObjectInv
<1>1. /\ user[u] \in {"mark", "has"} /\ user'[u] \in {"has", "idle"} /\ curIdx' = curIdx
      /\ user'[u] = "has" => obj'[u] = obj[u]
      /\ \A v \in Users \ {u} : /\ user'[v] = user[v] /\ seen'[v] = seen[v] /\ follow'[v] = follow[v]
                                /\ obj'[v] = obj[v] /\ objLag'[v] = objLag[v]
  <2>1. CASE MarkUsed(u)
    BY <2>1 DEF MarkUsed, UserGoes, ObjectTypes
  <2>2. CASE ReleaseObj(u)
    BY <2>2 DEF ReleaseObj, UserGoes, ObjectTypes
  <2>3. QED BY <2>1, <2>2
<1>2. PICK E \in SUBSET Objs : /\ FreshOk(E)
                               /\ \A v \in Looking \ Fresh : BehindOk(E, v)
                               /\ \A w \in Users : user[w] = "mark" => MarkOk(E, w)
  BY DEF PassInv
<1>3. Looking' = Looking /\ u \notin Looking
  BY <1>1 DEF Looking
<1>4. Fresh' = Fresh
  BY <1>1, <1>3 DEF Fresh, Looking
<1>5. HeldObjs' \subseteq HeldObjs
  <2>1. Holders' \subseteq Holders
    BY <1>1 DEF Holders
  <2>2. \A v \in Holders' : obj'[v] = obj[v]
    BY <1>1 DEF Holders
  <2>3. QED BY <2>1, <2>2 DEF HeldObjs
<1>6. FreshOk(E)'
  <2>1. Fresh' # {} => Cardinality(E) < Cardinality(Users) /\ HeldObjs' \subseteq E
    BY <1>2, <1>4, <1>5 DEF FreshOk
  <2>2. ASSUME NEW v \in Fresh'
        PROVE  /\ seen'[v] = curIdx' /\ Arc(curIdx', obj'[v]) \subseteq E
               /\ user'[v] = "swap" => obj'[v] \notin HeldObjs'
    <3>1. v \in Fresh /\ v \in Users \ {u}
      BY <1>3, <1>4 DEF Fresh, Looking
    <3>2. QED BY <1>1, <1>2, <1>5, <3>1 DEF FreshOk
  <2>3. QED BY <2>1, <2>2 DEF FreshOk
<1>7. \A v \in Looking' \ Fresh' : /\ v \in Looking \ Fresh /\ seen'[v] = seen[v]
                                   /\ objLag'[v] = objLag[v]
  BY <1>1, <1>3, <1>4 DEF Looking
<1>8. \A v \in Users : user'[v] = "mark" => /\ user[v] = "mark" /\ obj'[v] = obj[v]
                                            /\ follow'[v] = follow[v] /\ objLag'[v] = objLag[v]
  BY <1>1
<1>9. QED BY <1>1, <1>2, <1>4, <1>5, <1>6, <1>7, <1>8, PassKept

(* The way behind somebody gets one object longer.                         *)
LEMMA PassLonger ==
  ASSUME NEW W \in SUBSET Objs, NEW k \in Nat, k < ObjLag, Cardinality(W) < Cardinality(Users) + k,
         NEW a \in Objs, NEW b \in Objs, NEW c \in Objs,
         Arc(a, b) \subseteq W, Arc(b, c) \subseteq W
  PROVE  \E V \in SUBSET Objs :
           /\ Cardinality(V) < Cardinality(Users) + (k + 1)
           /\ V = W \cup {c} /\ NextObj(c) # a /\ Arc(a, NextObj(c)) \subseteq V
<1> DEFINE V == W \cup {c}
<1>1. /\ V \in SUBSET Objs /\ Cardinality(W) \in Nat /\ Cardinality(V) \in Nat
      /\ Cardinality(V) <= Cardinality(W) + 1
  BY ObjsMore
<1>2. Cardinality(V) < Cardinality(Users) + (k + 1) /\ Cardinality(V) < ObjCount
  BY <1>1, PoolSizes
<1>3. V # Objs
  BY <1>1, <1>2, ObjsNotAll
<1>4. c \in V /\ Arc(a, b) \subseteq V /\ Arc(b, c) \subseteq V
  OBVIOUS
<1> HIDE DEF V
<1>5. NextObj(c) # a /\ Arc(a, NextObj(c)) \subseteq V
  BY <1>1, <1>3, <1>4, ArcExtend
<1>6. QED BY <1>1, <1>2, <1>5 DEF V

LEMMA PassSwap ==
  ASSUME ObjectInv, NEW w \in Users, CasObj(w)
  PROVE  PassInv'
<1> USE DEF ObjectInv
<1>1. w \in Fresh /\ obj[w] \notin HeldObjs
  BY SwapperIsFresh
<1>2. /\ user[w] = "swap" /\ user'[w] = "mark" /\ curIdx' = follow[w]
      /\ \A v \in Users \ {w} : user'[v] = user[v]
      /\ UNCHANGED <<marked, seen, follow, obj>>
  BY DEF CasObj, UserGoes, SwapIndex, ObjectTypes
<1>3. follow[w] = NextObj(obj[w])
  BY <1>2 DEF OwnInv
<1>4. /\ objLag'[w] = objLag[w]
      /\ \A v \in Inside \ {w} : objLag[v] < ObjLag /\ objLag'[v] = objLag[v] + 1
  BY DEF CasObj, SwapIndex, Inside
<1>5. Holders' = Holders \cup {w} /\ HeldObjs' = HeldObjs \cup {obj[w]}
  <2>1. Holders' = Holders \cup {w}
    BY <1>2 DEF Holders
  <2>2. QED BY <1>2, <2>1 DEF HeldObjs
<1>6. Looking' = Looking \ {w} /\ Looking' \subseteq Inside \ {w}
  BY <1>2 DEF Looking, Inside
<1>7. objLag[w] = 0 /\ \A v \in Users : objLag[v] \in Nat
  BY <1>1 DEF Fresh, ObjectTypes
<1>8. Fresh' = {}
  <2>1. \A v \in Looking' : objLag'[v] # 0
    BY <1>4, <1>6, <1>7 DEF Inside
  <2>2. QED BY <2>1 DEF Fresh
<1>9. PICK E \in SUBSET Objs : /\ FreshOk(E)
                               /\ \A v \in Looking \ Fresh : BehindOk(E, v)
                               /\ \A u \in Users : user[u] = "mark" => MarkOk(E, u)
  BY DEF PassInv
<1>10. /\ Cardinality(E) < Cardinality(Users) /\ HeldObjs \subseteq E
       /\ seen[w] = curIdx /\ Arc(curIdx, obj[w]) \subseteq E
  BY <1>1, <1>9 DEF FreshOk
<1>11. curIdx \in Objs /\ obj[w] \in Objs
  BY DEF ObjectTypes
<1>12. FreshOk({})'
  BY <1>8 DEF FreshOk
<1>13. ASSUME NEW v \in Looking' \ Fresh' PROVE BehindOk({}, v)'
  <2>1. v \in Looking /\ v \in Inside \ {w} /\ v \in Users
    BY <1>6 DEF Looking
  <2>2. /\ objLag[v] \in Nat /\ objLag[v] < ObjLag /\ objLag'[v] = objLag[v] + 1
        /\ seen[v] \in Objs
    BY <1>4, <1>7, <2>1 DEF ObjectTypes
  <2>3. \E W \in SUBSET Objs : /\ Cardinality(W) < Cardinality(Users) + objLag[v]
                               /\ E \subseteq W /\ Arc(seen[v], curIdx) \subseteq W
    <3>1. CASE v \in Fresh
      <4>1. seen[v] = curIdx /\ objLag[v] = 0
        BY <1>9, <3>1 DEF FreshOk, Fresh
      <4>2. Arc(seen[v], curIdx) = {}
        BY <1>11, <4>1, ArcNone
      <4>3. Cardinality(E) < Cardinality(Users) + objLag[v]
        BY <1>10, <4>1, PoolSizes, ObjsFinite
      <4>4. QED BY <4>2, <4>3
    <3>2. CASE v \notin Fresh
      BY <1>9, <2>1, <3>2 DEF BehindOk
    <3>3. QED BY <3>1, <3>2
  <2>4. PICK W \in SUBSET Objs : /\ Cardinality(W) < Cardinality(Users) + objLag[v]
                                 /\ E \subseteq W /\ Arc(seen[v], curIdx) \subseteq W
    BY <2>3
  <2>5. Arc(curIdx, obj[w]) \subseteq W
    BY <1>10, <2>4
  <2>6. PICK V \in SUBSET Objs :
           /\ Cardinality(V) < Cardinality(Users) + (objLag[v] + 1)
           /\ V = W \cup {obj[w]}
           /\ NextObj(obj[w]) # seen[v] /\ Arc(seen[v], NextObj(obj[w])) \subseteq V
    BY <1>11, <2>2, <2>4, <2>5, PassLonger
  <2>7. HeldObjs' \subseteq V
    BY <1>5, <1>10, <2>4, <2>6
  <2>8. /\ Cardinality(V) < Cardinality(Users) + objLag'[v]
        /\ curIdx' # seen'[v] /\ Arc(seen'[v], curIdx') \subseteq V
    BY <1>2, <1>3, <2>2, <2>6
  <2>9. QED BY <2>7, <2>8 DEF BehindOk
<1>14. ASSUME NEW u \in Users, user'[u] = "mark" PROVE MarkOk({}, u)'
  <2>1. CASE u = w
    BY <1>2, <1>4, <1>7, <1>8, <2>1 DEF MarkOk
  <2>2. CASE u # w
    <3>1. user[u] = "mark" /\ u \in Inside \ {w}
      BY <1>2, <1>14, <2>2 DEF Inside
    <3>2. /\ objLag[u] \in Nat /\ objLag[u] < ObjLag /\ objLag'[u] = objLag[u] + 1
          /\ follow[u] \in Objs /\ obj[u] \in Objs /\ follow[u] = NextObj(obj[u])
      BY <1>4, <1>7, <3>1 DEF ObjectTypes, OwnInv
    <3>3. PICK W \in SUBSET Objs :
             /\ Cardinality(W) + 2 <= Cardinality(Users) + objLag[u]
             /\ HeldObjs \ {obj[u]} \subseteq W /\ E \ {obj[u]} \subseteq W
             /\ Arc(follow[u], curIdx) \subseteq W
      BY <1>1, <1>9, <3>1 DEF MarkOk
    <3> DEFINE X == W \cup {obj[u]}
    <3>4. /\ X \in SUBSET Objs /\ Cardinality(W) \in Nat /\ Cardinality(X) \in Nat
          /\ Cardinality(X) <= Cardinality(W) + 1
      BY <3>2, ObjsMore
    <3>5. Cardinality(X) < Cardinality(Users) + objLag[u]
      BY <3>2, <3>3, <3>4, PoolSizes
    <3>6. Arc(follow[u], curIdx) \subseteq X /\ Arc(curIdx, obj[w]) \subseteq X
      BY <1>10, <3>3
    <3> HIDE DEF X
    <3>7. PICK V \in SUBSET Objs :
             /\ Cardinality(V) < Cardinality(Users) + (objLag[u] + 1)
             /\ V = X \cup {obj[w]}
             /\ NextObj(obj[w]) # follow[u] /\ Arc(follow[u], NextObj(obj[w])) \subseteq V
      BY <1>11, <3>2, <3>4, <3>5, <3>6, PassLonger
    <3> DEFINE Y == W \cup {obj[w]}
    <3>8. Arc(follow[u], NextObj(obj[w])) \subseteq Y
      <4>1. NextObj(obj[w]) \in Objs
        BY <1>11, NextObjValue
      <4>2. obj[u] \notin Arc(follow[u], NextObj(obj[w]))
        BY <3>2, <4>1, ArcShort
      <4>3. QED BY <3>7, <4>2 DEF X
    <3>9. Y \in SUBSET Objs /\ Cardinality(Y) + 2 <= Cardinality(Users) + objLag'[u]
      <4>1. /\ Y \in SUBSET Objs /\ Cardinality(Y) \in Nat
            /\ Cardinality(Y) <= Cardinality(W) + 1
        BY <1>11, ObjsMore
      <4> HIDE DEF Y
      <4>2. QED BY <3>2, <3>3, <3>4, <4>1, PoolSizes
    <3>10. HeldObjs' \ {obj'[u]} \subseteq Y /\ Arc(follow'[u], curIdx') \subseteq Y
      BY <1>2, <1>3, <1>5, <3>3, <3>8
    <3>11. ~(objLag'[u] = 0)
      BY <3>2
    <3> HIDE DEF Y
    <3>12. QED BY <3>9, <3>10, <3>11 DEF MarkOk
  <2>3. QED BY <2>1, <2>2
<1>15. QED BY <1>12, <1>13, <1>14 DEF PassInv

LEMMA ObjectStep == ObjectInv /\ [LibraryNext]_libraryVars => ObjectInv'
<1> SUFFICES ASSUME ObjectInv, [LibraryNext]_libraryVars PROVE ObjectInv'
  OBVIOUS
<1>1. [ObjectNext]_objectVars
  BY DEF LibraryNext, libraryVars
<1>2. ObjectTypes' /\ OwnInv'
  BY <1>1, ObjectTypesStep, OwnStep DEF ObjectInv
<1>3. ASSUME UNCHANGED objectVars PROVE PassInv'
  <2>1. UNCHANGED <<curIdx, user, seen, follow, obj, objLag>>
    BY <1>3 DEF objectVars
  <2>2. Looking' = Looking /\ Fresh' = Fresh /\ HeldObjs' = HeldObjs
    BY <2>1 DEF Looking, Fresh, HeldObjs, Holders
  <2>3. PICK E \in SUBSET Objs : /\ FreshOk(E)
                                 /\ \A v \in Looking \ Fresh : BehindOk(E, v)
                                 /\ \A w \in Users : user[w] = "mark" => MarkOk(E, w)
    BY DEF ObjectInv, PassInv
  <2>4. FreshOk(E)'
    BY <2>1, <2>2, <2>3 DEF FreshOk
  <2>5. QED BY <2>1, <2>2, <2>3, <2>4, PassKept
<1>4. ASSUME ObjectNext PROVE PassInv'
  BY <1>4, PassRead, PassSkip, PassFound, PassOwn, PassSwap DEF ObjectNext
<1>5. QED BY <1>1, <1>2, <1>3, <1>4 DEF ObjectInv

LEMMA ObjectStart == ObjectInit => ObjectInv
<1> SUFFICES ASSUME ObjectInit PROVE ObjectInv
  OBVIOUS
<1>1. 0 \in Objs /\ 0 \in 0 .. ObjLag
  BY PoolSizes DEF Objs
<1>2. ObjectTypes
  BY <1>1 DEF ObjectInit, ObjectTypes
<1>3. \A u \in Users : user[u] = "idle"
  BY DEF ObjectInit
<1>4. OwnInv
  BY <1>3 DEF OwnInv, Holders, ObjectInit
<1>5. Looking = {} /\ Fresh = {}
  BY <1>3 DEF Looking, Fresh
<1>6. FreshOk({})
  BY <1>5 DEF FreshOk
<1>7. PassInv
  BY <1>3, <1>5, <1>6 DEF PassInv
<1>8. QED BY <1>2, <1>4, <1>7 DEF ObjectInv

(* No request object is given to two threads, and one in use stays marked, *)
(* for any number of objects, if the threads and the swaps that overtake   *)
(* one of them are together no more than the objects.                      *)
THEOREM ObjectsHaveOneOwner == LibrarySpec => []OneOwner
<1>1. LibraryInit => ObjectInv
  BY ObjectStart DEF LibraryInit
<1>2. ObjectInv => OneOwner
  BY DEF ObjectInv, OwnInv, OneOwner, Holders
<1>3. QED BY <1>1, <1>2, ObjectStep, PTL DEF LibrarySpec

-----------------------------------------------------------------------------
(***************************************************************************)
(* The data block pool: the list.                                          *)
(***************************************************************************)
LEMMA BufSizes ==
  /\ BufCount \in Nat /\ BufCount >= 1 /\ Null \notin Bufs /\ 1 \in Bufs
  /\ Getters \cap Releasers = {}
BY BufferPoolAssumption DEF Bufs, Null

LEMMA HeadIsBlk == ListInv => nextBlock \in Bufs \cup {Null}
<1> SUFFICES ASSUME ListInv PROVE nextBlock \in Bufs \cup {Null}
  OBVIOUS
<1>1. PICK n \in Nat : \E f \in [0 .. n -> Bufs \cup {Null}] : IsFreeList(n, f)
  BY DEF ListInv
<1>2. PICK f \in [0 .. n -> Bufs \cup {Null}] : IsFreeList(n, f)
  BY <1>1
<1>3. 0 \in 0 .. n
  OBVIOUS
<1>4. QED BY <1>2, <1>3 DEF IsFreeList

LEMMA TakenSame ==
  ASSUME filled' = filled,
         \A t \in Getters : /\ getter'[t] = "fill" <=> getter[t] = "fill"
                            /\ getter[t] = "fill" => got'[t] = got[t],
         \A t \in Releasers : /\ releaser'[t] = "idle" <=> releaser[t] = "idle"
                              /\ releaser[t] # "idle" => back'[t] = back[t]
  PROVE  TakenBufs' = TakenBufs
<1>1. {t \in Getters : getter'[t] = "fill"} = {t \in Getters : getter[t] = "fill"}
  OBVIOUS
<1>2. {t \in Releasers : releaser'[t] # "idle"} = {t \in Releasers : releaser[t] # "idle"}
  OBVIOUS
<1>3. QED BY <1>1, <1>2 DEF TakenBufs

LEMMA ListKept ==
  ASSUME ListInv, nextBlock' = nextBlock, TakenBufs' = TakenBufs,
         \A b \in Bufs \ TakenBufs : link'[b] = link[b]
  PROVE  ListInv'
<1>1. PICK n \in Nat : \E f \in [0 .. n -> Bufs \cup {Null}] : IsFreeList(n, f)
  BY DEF ListInv
<1>2. PICK f \in [0 .. n -> Bufs \cup {Null}] : IsFreeList(n, f)
  BY <1>1
<1>3. IsFreeList(n, f)'
  BY <1>2 DEF IsFreeList
<1>4. QED BY <1>3 DEF ListInv

(* The first block leaves the list.                                        *)
LEMMA ListShorter ==
  ASSUME ListInv, nextBlock \in Bufs, nextBlock' = link[nextBlock], link' = link,
         TakenBufs' = TakenBufs \cup {nextBlock}
  PROVE  ListInv' /\ nextBlock \notin TakenBufs
<1>1. PICK n \in Nat : \E f \in [0 .. n -> Bufs \cup {Null}] : IsFreeList(n, f)
  BY DEF ListInv
<1>2. PICK f \in [0 .. n -> Bufs \cup {Null}] : IsFreeList(n, f)
  BY <1>1
<1>3. /\ f[0] = nextBlock /\ f[n] = Null
      /\ \A i \in 0 .. n-1 : f[i] \in Bufs \ TakenBufs /\ f[i+1] = link[f[i]]
      /\ \A i, j \in 0 .. n-1 : f[i] = f[j] => i = j
      /\ \A b \in Bufs \ TakenBufs : \E i \in 0 .. n-1 : f[i] = b
  BY <1>2 DEF IsFreeList
<1>4. n # 0
  BY <1>3, BufSizes
<1> DEFINE m == n - 1
           g == [i \in 0 .. m |-> f[i+1]]
<1>5. /\ m \in Nat /\ n = m + 1 /\ 0 \in 0 .. m /\ 0 \in 0 .. n-1 /\ 0 + 1 = 1 /\ m \in 0 .. m
      /\ \A i \in 0 .. m : i + 1 \in 0 .. n
      /\ \A i \in 0 .. m-1 : i \in 0 .. m /\ i + 1 \in 0 .. m /\ i + 1 \in 0 .. n-1 /\ i + 1 # 0
      /\ \A i, j \in 0 .. m-1 : i + 1 = j + 1 => i = j
      /\ \A i \in 0 .. n-1 : i # 0 => i - 1 \in 0 .. m-1 /\ (i - 1) + 1 = i
  BY <1>4
<1> HIDE DEF m
<1>6. g \in [0 .. m -> Bufs \cup {Null}] /\ \A i \in 0 .. m : g[i] = f[i+1]
  BY <1>5
<1> HIDE DEF g
<1>7. g[0] = nextBlock'
  <2>1. g[0] = f[0 + 1]
    BY <1>5, <1>6
  <2>2. f[0 + 1] = link[f[0]]
    BY <1>3, <1>5
  <2>3. QED BY <1>3, <2>1, <2>2
<1>8. g[m] = Null
  BY <1>3, <1>5, <1>6
<1>9. nextBlock \notin TakenBufs
  BY <1>3, <1>5
<1>10. ASSUME NEW i \in 0 .. m-1 PROVE g[i] \in Bufs \ TakenBufs' /\ g[i+1] = link'[g[i]]
  <2>1. /\ i \in 0 .. m /\ i + 1 \in 0 .. m /\ i + 1 \in 0 .. n-1 /\ i + 1 # 0 /\ 0 \in 0 .. n-1
        /\ g[i] = f[i+1] /\ g[i+1] = f[(i+1)+1]
    BY <1>5, <1>6
  <2>2. f[i+1] # f[0]
    BY <1>3, <2>1
  <2>3. QED BY <1>3, <2>1, <2>2
<1>11. \A i, j \in 0 .. m-1 : g[i] = g[j] => i = j
  BY <1>3, <1>5, <1>6
<1>12. ASSUME NEW b \in Bufs \ TakenBufs' PROVE \E i \in 0 .. m-1 : g[i] = b
  <2>1. PICK i \in 0 .. n-1 : f[i] = b
    BY <1>3
  <2>2. i # 0
    BY <1>3, <2>1
  <2>3. i - 1 \in 0 .. m-1 /\ (i - 1) + 1 = i
    BY <1>5, <2>2
  <2>4. g[i-1] = b
    BY <1>5, <1>6, <2>1, <2>3
  <2>5. QED BY <2>3, <2>4
<1>13. IsFreeList(m, g)'
  BY <1>6, <1>7, <1>8, <1>10, <1>11, <1>12 DEF IsFreeList
<1>14. QED BY <1>5, <1>6, <1>9, <1>13 DEF ListInv

(* A block comes back, before the first.                                   *)
LEMMA ListLonger ==
  ASSUME ListInv, NEW b \in Bufs, b \in TakenBufs, nextBlock' = b, link[b] = nextBlock, link' = link,
         TakenBufs' = TakenBufs \ {b}
  PROVE  ListInv'
<1>1. PICK n \in Nat : \E f \in [0 .. n -> Bufs \cup {Null}] : IsFreeList(n, f)
  BY DEF ListInv
<1>2. PICK f \in [0 .. n -> Bufs \cup {Null}] : IsFreeList(n, f)
  BY <1>1
<1>3. /\ f[0] = nextBlock /\ f[n] = Null
      /\ \A i \in 0 .. n-1 : f[i] \in Bufs \ TakenBufs /\ f[i+1] = link[f[i]]
      /\ \A i, j \in 0 .. n-1 : f[i] = f[j] => i = j
      /\ \A c \in Bufs \ TakenBufs : \E i \in 0 .. n-1 : f[i] = c
  BY <1>2 DEF IsFreeList
<1> DEFINE m == n + 1
           g == [i \in 0 .. m |-> IF i = 0 THEN b ELSE f[i-1]]
<1>4. /\ m \in Nat /\ m # 0 /\ m - 1 = n /\ 0 \in 0 .. m /\ m \in 0 .. m /\ n \in 0 .. n /\ 0 \in 0 .. m-1
      /\ \A i \in 0 .. m : i # 0 => i - 1 \in 0 .. n
      /\ \A i \in 0 .. m-1 : i \in 0 .. m /\ i + 1 \in 0 .. m /\ i + 1 # 0 /\ (i + 1) - 1 = i
      /\ \A i \in 0 .. m-1 : i # 0 => i - 1 \in 0 .. n-1 /\ (i - 1) + 1 = i
      /\ \A i, j \in 0 .. m-1 : i - 1 = j - 1 => i = j
      /\ \A i \in 0 .. n-1 : i + 1 \in 0 .. m-1 /\ i + 1 \in 0 .. m /\ i + 1 # 0 /\ (i + 1) - 1 = i
  OBVIOUS
<1> HIDE DEF m
<1>5. /\ g \in [0 .. m -> Bufs \cup {Null}] /\ g[0] = b
      /\ \A i \in 0 .. m : i # 0 => g[i] = f[i-1]
  BY <1>4
<1> HIDE DEF g
<1>6. g[0] = nextBlock' /\ g[m] = Null
  BY <1>3, <1>4, <1>5
<1>7. ASSUME NEW i \in 0 .. m-1 PROVE g[i] \in Bufs \ TakenBufs' /\ g[i+1] = link'[g[i]]
  <2>1. i \in 0 .. m /\ i + 1 \in 0 .. m /\ i + 1 # 0 /\ (i + 1) - 1 = i /\ g[i+1] = f[i]
    BY <1>4, <1>5
  <2>2. CASE i = 0
    BY <1>3, <1>5, <2>1, <2>2
  <2>3. CASE i # 0
    <3>1. i - 1 \in 0 .. n-1 /\ (i - 1) + 1 = i /\ g[i] = f[i-1]
      BY <1>4, <1>5, <2>1, <2>3
    <3>2. f[i-1] \in Bufs \ TakenBufs /\ f[i] = link[f[i-1]]
      BY <1>3, <3>1
    <3>3. QED BY <2>1, <3>1, <3>2
  <2>4. QED BY <2>2, <2>3
<1>8. ASSUME NEW i \in 0 .. m-1, NEW j \in 0 .. m-1, g[i] = g[j] PROVE i = j
  <2>1. \A k \in 0 .. m-1 : k # 0 => /\ k - 1 \in 0 .. n-1 /\ g[k] = f[k-1] /\ g[k] # b
    BY <1>3, <1>4, <1>5
  <2>2. CASE i = 0 \/ j = 0
    BY <1>5, <1>8, <2>1, <2>2
  <2>3. CASE i # 0 /\ j # 0
    <3>1. i - 1 = j - 1
      BY <1>3, <1>8, <2>1, <2>3
    <3>2. QED BY <1>4, <3>1
  <2>4. QED BY <2>2, <2>3
<1>9. ASSUME NEW c \in Bufs \ TakenBufs' PROVE \E i \in 0 .. m-1 : g[i] = c
  <2>1. CASE c = b
    BY <1>4, <1>5, <2>1
  <2>2. CASE c # b
    <3>1. PICK i \in 0 .. n-1 : f[i] = c
      BY <1>3, <2>2
    <3>2. i + 1 \in 0 .. m-1 /\ g[i+1] = c
      BY <1>4, <1>5, <3>1
    <3>3. QED BY <3>2
  <2>3. QED BY <2>1, <2>2
<1>10. IsFreeList(m, g)'
  BY <1>5, <1>6, <1>7, <1>8, <1>9 DEF IsFreeList
<1>11. QED BY <1>4, <1>5, <1>10 DEF ListInv

-----------------------------------------------------------------------------
(***************************************************************************)
(* The data block pool: the steps.                                         *)
(***************************************************************************)
LEMMA ListStep ==
  ASSUME BufferInv, [BufferNext]_bufferVars
  PROVE  ListInv'
<1> USE DEF BufferInv
<1>1. CASE UNCHANGED bufferVars \/ StopPool
  <2>1. UNCHANGED <<link, nextBlock, getter, got, filled, releaser, back>>
    BY <1>1 DEF bufferVars, listVars, getVars, relVars, StopPool
  <2>2. TakenBufs' = TakenBufs
    BY <2>1, TakenSame
  <2>3. QED BY <2>1, <2>2, ListKept
<1>2. ASSUME NEW t \in Getters, CallGet(t) \/ TryGet(t) \/ ReadHead(t) \/ TryAgain(t) PROVE ListInv'
  <2>1. /\ UNCHANGED <<link, nextBlock, filled, releaser, back>>
        /\ getter[t] # "fill" /\ getter'[t] # "fill"
        /\ \A u \in Getters \ {t} : getter'[u] = getter[u] /\ got'[u] = got[u]
    BY <1>2 DEF CallGet, TryGet, ReadHead, TryAgain, GetterGoes, listVars, relVars, BufferTypes
  <2>2. TakenBufs' = TakenBufs
    BY <2>1, TakenSame
  <2>3. QED BY <2>1, <2>2, ListKept
<1>3. ASSUME NEW t \in Getters, Unlink(t) PROVE ListInv'
  <2>1. /\ got[t] = nextBlock /\ getter[t] = "unlink" /\ nextBlock \in Bufs \cup {Null}
        /\ UNCHANGED <<link, got, filled, releaser, back>>
        /\ \A u \in Getters \ {t} : getter'[u] = getter[u]
    BY <1>3, HeadIsBlk DEF Unlink, GetterGoes, OwnerInv, relVars, BufferTypes
  <2>2. CASE nextBlock = Null
    <3>1. nextBlock' = nextBlock /\ getter'[t] = "none"
      BY <1>3, <2>1, <2>2 DEF Unlink, GetterGoes, BufferTypes
    <3>2. TakenBufs' = TakenBufs
      BY <2>1, <3>1, TakenSame
    <3>3. QED BY <2>1, <3>1, <3>2, ListKept
  <2>3. CASE nextBlock # Null
    <3>1. nextBlock' = link[nextBlock] /\ getter'[t] = "fill"
      BY <1>3, <2>1, <2>3 DEF Unlink, GetterGoes, BufferTypes
    <3>2. TakenBufs' = TakenBufs \cup {nextBlock}
      <4>1. {u \in Getters : getter'[u] = "fill"} = {u \in Getters : getter[u] = "fill"} \cup {t}
        BY <2>1, <3>1
      <4>2. QED BY <2>1, <4>1 DEF TakenBufs
    <3>3. QED BY <2>1, <2>3, <3>1, <3>2, ListShorter
  <2>4. QED BY <2>2, <2>3
<1>4. ASSUME NEW t \in Getters, FillBuf(t) PROVE ListInv'
  <2>1. /\ getter[t] = "fill" /\ filled' = filled \cup {got[t]}
        /\ UNCHANGED <<nextBlock, releaser, back>>
        /\ link' = [link EXCEPT ![got[t]] = Data]
        /\ getter'[t] = "idle"
        /\ \A u \in Getters \ {t} : getter'[u] = getter[u] /\ got'[u] = got[u]
    BY <1>4 DEF FillBuf, GetterGoes, relVars, BufferTypes
  <2>2. TakenBufs' = TakenBufs
    <3>1. {u \in Getters : getter[u] = "fill"} = {u \in Getters : getter'[u] = "fill"} \cup {t}
      BY <2>1
    <3>2. {got[u] : u \in {v \in Getters : getter[v] = "fill"}} =
            {got'[u] : u \in {v \in Getters : getter'[v] = "fill"}} \cup {got[t]}
      BY <2>1, <3>1
    <3>3. QED BY <2>1, <3>2 DEF TakenBufs
  <2>3. got[t] \in TakenBufs
    BY <2>1 DEF TakenBufs
  <2>4. \A b \in Bufs \ TakenBufs : link'[b] = link[b]
    BY <2>1, <2>3 DEF BufferTypes
  <2>5. QED BY <2>1, <2>2, <2>4, ListKept
<1>5. ASSUME NEW t \in Releasers, LockRelease(t) PROVE ListInv'
  <2>1. /\ UNCHANGED <<link, nextBlock, getter, got, filled, back>>
        /\ releaser[t] # "idle" /\ releaser'[t] # "idle"
        /\ \A u \in Releasers \ {t} : releaser'[u] = releaser[u]
    BY <1>5 DEF LockRelease, ReleaserGoes, listVars, getVars, BufferTypes
  <2>2. TakenBufs' = TakenBufs
    BY <2>1, TakenSame
  <2>3. QED BY <2>1, <2>2, ListKept
<1>6. ASSUME NEW t \in Releasers, TakeFilled(t) PROVE ListInv'
  <2>1. PICK b \in filled : back' = [back EXCEPT ![t] = b] /\ filled' = filled \ {b}
    BY <1>6 DEF TakeFilled
  <2>2. /\ releaser[t] = "idle" /\ releaser'[t] = "lock" /\ back'[t] = b
        /\ UNCHANGED <<link, nextBlock, getter, got>>
        /\ \A u \in Releasers \ {t} : releaser'[u] = releaser[u] /\ back'[u] = back[u]
    BY <1>6, <2>1 DEF TakeFilled, ReleaserGoes, listVars, getVars, BufferTypes
  <2>3. {back'[u] : u \in {v \in Releasers : releaser'[v] # "idle"}} =
          {back[u] : u \in {v \in Releasers : releaser[v] # "idle"}} \cup {b}
    <3>1. {v \in Releasers : releaser'[v] # "idle"} = {v \in Releasers : releaser[v] # "idle"} \cup {t}
      BY <2>2
    <3>2. QED BY <2>2, <3>1
  <2>4. TakenBufs' = TakenBufs
    BY <2>1, <2>2, <2>3 DEF TakenBufs
  <2>5. QED BY <2>2, <2>4, ListKept
<1>7. ASSUME NEW t \in Releasers, LinkBuf(t) PROVE ListInv'
  <2>1. /\ UNCHANGED <<nextBlock, getter, got, filled, back>>
        /\ releaser[t] # "idle" /\ releaser'[t] # "idle"
        /\ link' = [link EXCEPT ![back[t]] = nextBlock]
        /\ \A u \in Releasers \ {t} : releaser'[u] = releaser[u]
    BY <1>7 DEF LinkBuf, ReleaserGoes, getVars, BufferTypes
  <2>2. TakenBufs' = TakenBufs
    BY <2>1, TakenSame
  <2>3. back[t] \in TakenBufs
    BY <2>1 DEF TakenBufs
  <2>4. \A b \in Bufs \ TakenBufs : link'[b] = link[b]
    BY <2>1, <2>3 DEF BufferTypes
  <2>5. QED BY <2>1, <2>2, <2>4, ListKept
<1>8. ASSUME NEW t \in Releasers, SetHead(t) PROVE ListInv'
  <2>1. /\ UNCHANGED <<link, getter, got, filled>>
        /\ releaser[t] = "head" /\ releaser'[t] = "idle" /\ nextBlock' = back[t]
        /\ \A u \in Releasers \ {t} : releaser'[u] = releaser[u] /\ back'[u] = back[u]
    BY <1>8 DEF SetHead, ReleaserGoes, getVars, BufferTypes
  <2>2. back[t] \in Bufs /\ back[t] \notin filled /\ link[back[t]] = nextBlock
    BY <2>1 DEF OwnerInv
  <2>3. \A u \in Getters : getter[u] = "fill" => got[u] # back[t]
    BY <2>1 DEF OwnerInv
  <2>4. \A u \in Releasers \ {t} : releaser[u] # "idle" => back[u] # back[t]
    BY <2>1 DEF OwnerInv
  <2>5. {back'[u] : u \in {v \in Releasers : releaser'[v] # "idle"}} =
          {back[u] : u \in {v \in Releasers : releaser[v] # "idle"}} \ {back[t]}
    <3>1. {v \in Releasers : releaser'[v] # "idle"} = {v \in Releasers : releaser[v] # "idle"} \ {t}
      BY <2>1
    <3>2. QED BY <2>1, <2>4, <3>1
  <2>6. TakenBufs' = TakenBufs \ {back[t]}
    BY <2>1, <2>2, <2>3, <2>5 DEF TakenBufs
  <2>7. back[t] \in TakenBufs
    BY <2>1 DEF TakenBufs
  <2>8. QED BY <2>1, <2>2, <2>6, <2>7, ListLonger
<1>9. QED BY <1>1, <1>2, <1>3, <1>4, <1>5, <1>6, <1>7, <1>8 DEF BufferNext, Getting, Releasing

LEMMA BufferTypesStep ==
  ASSUME BufferInv, [BufferNext]_bufferVars
  PROVE  BufferTypes'
<1> USE DEF BufferInv
<1>1. nextBlock \in Bufs \cup {Null}
  BY HeadIsBlk
<1>2. CASE UNCHANGED bufferVars \/ StopPool
  BY <1>2 DEF bufferVars, listVars, getVars, relVars, StopPool, BufferTypes
<1>3. ASSUME NEW t \in Getters, CallGet(t) \/ TryGet(t) \/ ReadHead(t) \/ TryAgain(t) PROVE BufferTypes'
  BY <1>1, <1>3 DEF CallGet, TryGet, ReadHead, TryAgain, GetterGoes, LockBuf, listVars, relVars, BufferTypes
<1>4. ASSUME NEW t \in Getters, Unlink(t) PROVE BufferTypes'
  BY <1>4 DEF Unlink, UnlockBuf, GetterGoes, relVars, BufferTypes
<1>5. ASSUME NEW t \in Getters, FillBuf(t) PROVE BufferTypes'
  <2>1. got[t] \in Bufs
    BY <1>5 DEF FillBuf, GetterGoes, OwnerInv
  <2>2. QED BY <1>5, <2>1 DEF FillBuf, GetterGoes, relVars, BufferTypes
<1>6. ASSUME NEW t \in Releasers, LockRelease(t) PROVE BufferTypes'
  BY <1>6 DEF LockRelease, LockBuf, ReleaserGoes, listVars, getVars, BufferTypes
<1>7. ASSUME NEW t \in Releasers, TakeFilled(t) PROVE BufferTypes'
  BY <1>7 DEF TakeFilled, ReleaserGoes, listVars, getVars, BufferTypes
<1>8. ASSUME NEW t \in Releasers, LinkBuf(t) PROVE BufferTypes'
  BY <1>1, <1>8 DEF LinkBuf, ReleaserGoes, getVars, BufferTypes
<1>9. ASSUME NEW t \in Releasers, SetHead(t) PROVE BufferTypes'
  BY <1>9 DEF SetHead, UnlockBuf, ReleaserGoes, getVars, BufferTypes
<1>10. QED BY <1>2, <1>3, <1>4, <1>5, <1>6, <1>7, <1>8, <1>9 DEF BufferNext, Getting, Releasing

LEMMA OwnerStep ==
  ASSUME BufferInv, [BufferNext]_bufferVars
  PROVE  OwnerInv'
<1> USE DEF BufferInv
<1>1. CASE UNCHANGED bufferVars \/ StopPool
  BY <1>1 DEF bufferVars, listVars, getVars, relVars, StopPool, OwnerInv
<1>2. ASSUME NEW t \in Getters, CallGet(t) \/ TryAgain(t) PROVE OwnerInv'
  <2>1. /\ UNCHANGED <<link, nextBlock, bufMutex, got, filled, releaser, back>>
        /\ getter'[t] \in {"idle", "lock"}
        /\ \A u \in Getters \ {t} : getter'[u] = getter[u]
    BY <1>2 DEF CallGet, TryAgain, GetterGoes, listVars, relVars, BufferTypes
  <2>2. QED BY <2>1 DEF OwnerInv
<1>3. ASSUME NEW t \in Getters, TryGet(t) PROVE OwnerInv'
  <2>1. /\ UNCHANGED <<link, nextBlock, got, filled, releaser, back>>
        /\ getter'[t] = "head" /\ bufMutex = {} /\ bufMutex' = {t}
        /\ \A u \in Getters \ {t} : getter'[u] = getter[u]
    BY <1>3 DEF TryGet, LockBuf, GetterGoes, listVars, relVars, BufferTypes
  <2>2. /\ \A u \in Getters : getter[u] \notin {"head", "unlink"}
        /\ \A u \in Releasers : releaser[u] \notin {"link", "head"}
    BY <2>1 DEF OwnerInv
  <2>3. QED BY <2>1, <2>2 DEF OwnerInv
<1>4. ASSUME NEW t \in Getters, ReadHead(t) PROVE OwnerInv'
  <2>1. /\ UNCHANGED <<link, nextBlock, bufMutex, filled, releaser, back>>
        /\ getter[t] = "head" /\ getter'[t] = "unlink" /\ got'[t] = nextBlock
        /\ \A u \in Getters \ {t} : getter'[u] = getter[u] /\ got'[u] = got[u]
    BY <1>4 DEF ReadHead, GetterGoes, listVars, relVars, BufferTypes
  <2>2. QED BY <2>1 DEF OwnerInv
<1>5. ASSUME NEW t \in Getters, Unlink(t) PROVE OwnerInv'
  <2>1. /\ UNCHANGED <<link, got, filled, releaser, back>>
        /\ getter[t] = "unlink" /\ got[t] = nextBlock /\ bufMutex' = bufMutex \ {t}
        /\ \A u \in Getters \ {t} : getter'[u] = getter[u]
    BY <1>5 DEF Unlink, UnlockBuf, GetterGoes, relVars, BufferTypes, OwnerInv
  <2>2. /\ \A u \in Getters \ {t} : getter[u] \notin {"head", "unlink"}
        /\ \A u \in Releasers : releaser[u] \notin {"link", "head"}
    BY <2>1, BufSizes DEF OwnerInv
  <2>3. getter'[t] = "none" \/ (getter'[t] = "fill" /\ got[t] # Null)
    BY <1>5 DEF Unlink, GetterGoes, BufferTypes
  <2>4. CASE getter'[t] = "none"
    BY <2>1, <2>2, <2>4 DEF OwnerInv
  <2>5. CASE getter'[t] = "fill" /\ got[t] # Null
    <3>1. got[t] \in Bufs /\ got[t] \notin TakenBufs
      <4>1. nextBlock \in Bufs
        BY <2>1, <2>5, HeadIsBlk
      <4>2. PICK n \in Nat : \E f \in [0 .. n -> Bufs \cup {Null}] : IsFreeList(n, f)
        BY DEF ListInv
      <4>3. PICK f \in [0 .. n -> Bufs \cup {Null}] : IsFreeList(n, f)
        BY <4>2
      <4>4. n # 0
        BY <4>1, <4>3, BufSizes DEF IsFreeList
      <4>5. 0 \in 0 .. n-1
        BY <4>4
      <4>6. QED BY <2>1, <4>1, <4>3, <4>5 DEF IsFreeList
    <3>2. /\ got[t] \notin filled
          /\ \A u \in Getters : getter[u] = "fill" => got[u] # got[t]
          /\ \A u \in Releasers : releaser[u] # "idle" => back[u] # got[t]
      BY <3>1 DEF TakenBufs
    <3>3. QED BY <2>1, <2>2, <2>5, <3>1, <3>2 DEF OwnerInv
  <2>6. QED BY <2>3, <2>4, <2>5
<1>6. ASSUME NEW t \in Getters, FillBuf(t) PROVE OwnerInv'
  <2>1. /\ UNCHANGED <<nextBlock, bufMutex, releaser, back>>
        /\ getter[t] = "fill" /\ getter'[t] = "idle"
        /\ filled' = filled \cup {got[t]}
        /\ link' = [link EXCEPT ![got[t]] = Data]
        /\ \A u \in Getters \ {t} : getter'[u] = getter[u] /\ got'[u] = got[u]
    BY <1>6 DEF FillBuf, GetterGoes, relVars, BufferTypes
  <2>2. /\ got[t] \in Bufs
        /\ \A u \in Getters \ {t} : getter[u] = "fill" => got[u] # got[t]
        /\ \A u \in Releasers : releaser[u] # "idle" => back[u] \in Bufs /\ back[u] # got[t]
    BY <2>1 DEF OwnerInv
  <2>3. \A b \in Bufs : b # got[t] => link'[b] = link[b]
    BY <2>1 DEF BufferTypes
  <2>4. QED BY <2>1, <2>2, <2>3 DEF OwnerInv
<1>7. ASSUME NEW t \in Releasers, TakeFilled(t) PROVE OwnerInv'
  <2>1. PICK b \in filled : back' = [back EXCEPT ![t] = b] /\ filled' = filled \ {b}
    BY <1>7 DEF TakeFilled
  <2>2. /\ UNCHANGED <<link, nextBlock, bufMutex, getter, got>>
        /\ releaser[t] = "idle" /\ releaser'[t] = "lock" /\ back'[t] = b /\ b \in Bufs
        /\ \A u \in Releasers \ {t} : releaser'[u] = releaser[u] /\ back'[u] = back[u]
    BY <1>7, <2>1 DEF TakeFilled, ReleaserGoes, listVars, getVars, BufferTypes
  <2>3. /\ \A u \in Getters : getter[u] = "fill" => got[u] # b
        /\ \A u \in Releasers : releaser[u] # "idle" => back[u] # b
    BY <2>1 DEF OwnerInv
  <2>4. QED BY <2>1, <2>2, <2>3 DEF OwnerInv
<1>8. ASSUME NEW t \in Releasers, LockRelease(t) PROVE OwnerInv'
  <2>1. /\ UNCHANGED <<link, nextBlock, getter, got, filled, back>>
        /\ releaser[t] = "lock" /\ releaser'[t] = "link" /\ bufMutex = {} /\ bufMutex' = {t}
        /\ \A u \in Releasers \ {t} : releaser'[u] = releaser[u]
    BY <1>8 DEF LockRelease, LockBuf, ReleaserGoes, listVars, getVars, BufferTypes
  <2>2. /\ \A u \in Getters : getter[u] \notin {"head", "unlink"}
        /\ \A u \in Releasers : releaser[u] \notin {"link", "head"}
    BY <2>1 DEF OwnerInv
  <2>3. QED BY <2>1, <2>2 DEF OwnerInv
<1>9. ASSUME NEW t \in Releasers, LinkBuf(t) PROVE OwnerInv'
  <2>1. /\ UNCHANGED <<nextBlock, bufMutex, getter, got, filled, back>>
        /\ releaser[t] = "link" /\ releaser'[t] = "head"
        /\ link' = [link EXCEPT ![back[t]] = nextBlock]
        /\ \A u \in Releasers \ {t} : releaser'[u] = releaser[u]
    BY <1>9 DEF LinkBuf, ReleaserGoes, getVars, BufferTypes
  <2>2. /\ \A u \in Getters : getter[u] \notin {"head", "unlink"}
        /\ \A u \in Releasers \ {t} : releaser[u] \notin {"link", "head"}
    BY <2>1, BufSizes DEF OwnerInv
  <2>3. link'[back[t]] = nextBlock
    BY <2>1 DEF OwnerInv, BufferTypes
  <2>4. QED BY <2>1, <2>2, <2>3 DEF OwnerInv
<1>10. ASSUME NEW t \in Releasers, SetHead(t) PROVE OwnerInv'
  <2>1. /\ UNCHANGED <<link, getter, got, filled>>
        /\ releaser[t] = "head" /\ releaser'[t] = "idle" /\ bufMutex' = bufMutex \ {t}
        /\ \A u \in Releasers \ {t} : releaser'[u] = releaser[u] /\ back'[u] = back[u]
    BY <1>10 DEF SetHead, UnlockBuf, ReleaserGoes, getVars, BufferTypes
  <2>2. /\ \A u \in Getters : getter[u] \notin {"head", "unlink"}
        /\ \A u \in Releasers \ {t} : releaser[u] \notin {"link", "head"}
    BY <2>1, BufSizes DEF OwnerInv
  <2>3. QED BY <2>1, <2>2 DEF OwnerInv
<1>11. QED BY <1>1, <1>2, <1>3, <1>4, <1>5, <1>6, <1>7, <1>8, <1>9, <1>10 DEF BufferNext, Getting, Releasing

LEMMA BufferStep == BufferInv /\ [LibraryNext]_libraryVars => BufferInv'
<1> SUFFICES ASSUME BufferInv, [LibraryNext]_libraryVars PROVE BufferInv'
  OBVIOUS
<1>1. [BufferNext]_bufferVars
  BY DEF LibraryNext, libraryVars
<1>2. QED BY <1>1, BufferTypesStep, OwnerStep, ListStep DEF BufferInv

LEMMA BufferStart == BufferInit => BufferInv
<1> SUFFICES ASSUME BufferInit PROVE BufferInv
  OBVIOUS
<1>1. BufferTypes
  <2>1. \A b \in Bufs : b # BufCount => b + 1 \in Bufs
    BY BufSizes DEF Bufs
  <2>2. QED BY <2>1 DEF BufferInit, BufferTypes
<1>2. OwnerInv
  BY DEF BufferInit, OwnerInv
<1>3. TakenBufs = {}
  BY DEF BufferInit, TakenBufs
<1> DEFINE n == BufCount
           f == [i \in 0 .. n |-> IF i = n THEN Null ELSE i + 1]
<1>4. /\ n \in Nat /\ n # 0 /\ 0 \in 0 .. n /\ n \in 0 .. n /\ 0 + 1 = 1
      /\ \A i \in 0 .. n-1 : i \in 0 .. n /\ i + 1 \in 0 .. n /\ i # n /\ i + 1 \in 1 .. n
      /\ \A i, j \in 0 .. n-1 : i + 1 = j + 1 => i = j
      /\ \A b \in 1 .. n : b - 1 \in 0 .. n-1 /\ (b - 1) + 1 = b
      /\ \A i \in 0 .. n : i # n => i + 1 \in 1 .. n
  BY BufSizes
<1>5. Bufs = 1 .. n
  BY DEF Bufs
<1>6. /\ nextBlock = 1 /\ link = [b \in Bufs |-> IF b = n THEN Null ELSE b + 1]
  BY DEF BufferInit
<1> HIDE DEF n
<1>7. /\ f \in [0 .. n -> Bufs \cup {Null}] /\ f[n] = Null
      /\ \A i \in 0 .. n : i # n => f[i] = i + 1
  BY <1>4, <1>5
<1> HIDE DEF f
<1>8. f[0] = nextBlock
  BY <1>4, <1>6, <1>7
<1>9. ASSUME NEW i \in 0 .. n-1 PROVE f[i] \in Bufs \ TakenBufs /\ f[i+1] = link[f[i]]
  <2>1. /\ f[i] = i + 1 /\ i + 1 \in Bufs /\ i + 1 \in 0 .. n
        /\ link[f[i]] = IF i + 1 = n THEN Null ELSE (i + 1) + 1
    BY <1>4, <1>5, <1>6, <1>7
  <2>2. QED BY <1>3, <1>7, <2>1
<1>10. \A i, j \in 0 .. n-1 : f[i] = f[j] => i = j
  BY <1>4, <1>7
<1>11. ASSUME NEW b \in Bufs \ TakenBufs PROVE \E i \in 0 .. n-1 : f[i] = b
  <2>1. b - 1 \in 0 .. n-1 /\ f[b-1] = b
    BY <1>4, <1>5, <1>7
  <2>2. QED BY <2>1
<1>12. IsFreeList(n, f)
  BY <1>7, <1>8, <1>9, <1>10, <1>11 DEF IsFreeList
<1>13. QED BY <1>1, <1>2, <1>4, <1>7, <1>12 DEF BufferInv, ListInv

-----------------------------------------------------------------------------
(***************************************************************************)
(* The data block pool: what the list holds.                               *)
(***************************************************************************)
LEMMA NatMin ==
  ASSUME NEW T, T \subseteq Nat, T # {}
  PROVE  \E x \in T : \A y \in T : x <= y
<1> DEFINE R == OpToRel(<, Nat)
<1>1. IsWellFoundedOn(R, Nat)
  BY NatLessThanWellFounded
<1>2. \A x, y \in Nat : x < y => <<x, y>> \in R
  BY DEF OpToRel
<1> HIDE DEF R
<1>3. PICK x \in T : \A y \in T : ~(<<y, x>> \in R)
  BY <1>1, WFMin
<1>4. \A y \in T : ~(y < x)
  BY <1>2, <1>3
<1>5. \A y \in T : x \in Nat /\ y \in Nat
  BY <1>3
<1>6. QED BY <1>3, <1>4, <1>5

(* The list has as many blocks as are free.                                *)
LEMMA ListLength ==
  ASSUME NEW n \in Nat, NEW f, IsFreeList(n, f)
  PROVE  n = Cardinality(Bufs \ TakenBufs) /\ n <= BufCount
<1> DEFINE free == Bufs \ TakenBufs
           h == [k \in 1 .. n |-> f[k-1]]
<1>1. /\ \A i \in 0 .. n-1 : f[i] \in free
      /\ \A i, j \in 0 .. n-1 : f[i] = f[j] => i = j
      /\ \A b \in free : \E i \in 0 .. n-1 : f[i] = b
  BY DEF IsFreeList
<1>2. /\ \A k \in 1 .. n : k - 1 \in 0 .. n-1
      /\ \A i \in 0 .. n-1 : i + 1 \in 1 .. n /\ (i + 1) - 1 = i
      /\ \A k, l \in 1 .. n : k - 1 = l - 1 => k = l
  OBVIOUS
<1>3. IsFiniteSet(Bufs) /\ Cardinality(Bufs) = BufCount
  <2>1. 1 \in Int /\ BufCount \in Int /\ ~(1 > BufCount) /\ BufCount - 1 + 1 = BufCount
    BY BufSizes
  <2>2. QED BY <2>1, FS_Interval DEF Bufs
<1>4. free \in SUBSET Bufs
  OBVIOUS
<1> HIDE DEF free
<1>5. \A k \in 1 .. n : h[k] = f[k-1] /\ h[k] \in free
  BY <1>1, <1>2
<1>6. h \in [1 .. n -> free]
  BY <1>1, <1>2
<1> HIDE DEF h
<1>7. \A k, l \in 1 .. n : h[k] = h[l] => k = l
  BY <1>1, <1>2, <1>5
<1>8. \A b \in free : \E k \in 1 .. n : h[k] = b
  <2>1. ASSUME NEW b \in free PROVE \E k \in 1 .. n : h[k] = b
    <3>1. PICK i \in 0 .. n-1 : f[i] = b
      BY <1>1
    <3>2. i + 1 \in 1 .. n /\ h[i+1] = b
      BY <1>2, <1>5, <3>1
    <3>3. QED BY <3>2
  <2>2. QED BY <2>1
<1>9. h \in Bijection(1 .. n, free)
  BY <1>6, <1>7, <1>8 DEF Bijection, Injection, IsInjective, Surjection
<1>10. ExistsBijection(1 .. n, free)
  BY <1>9 DEF ExistsBijection
<1>11. Cardinality(free) = n
  BY <1>10, FS_CountingElements
<1>12. Cardinality(free) <= BufCount
  BY <1>3, <1>4, FS_Subset
<1>13. QED BY <1>11, <1>12 DEF free

(* ListAt goes along the list, and stays at its end.                       *)
LEMMA ListAtIsList ==
  ASSUME NEW n \in Nat, n <= BufCount, NEW f, IsFreeList(n, f)
  PROVE  \A i \in 0 .. n : ListAt[i] = f[i]
<1> DEFINE Next(g, i) == IF i = 0 THEN nextBlock
                         ELSE IF g[i-1] \in Bufs THEN link[g[i-1]] ELSE Null
           Solves(g) == g = [i \in 0 .. BufCount |-> Next(g, i)]
           whole == [i \in 0 .. BufCount |-> IF i <= n THEN f[i] ELSE Null]
<1>1. /\ f[0] = nextBlock /\ f[n] = Null
      /\ \A i \in 0 .. n-1 : f[i] \in Bufs /\ f[i+1] = link[f[i]]
  BY DEF IsFreeList
<1>2. /\ \A i \in 0 .. BufCount : i # 0 => /\ i - 1 \in 0 .. BufCount
                                           /\ i <= n => i - 1 \in 0 .. n-1 /\ (i - 1) + 1 = i /\ i - 1 <= n
                                           /\ ~(i <= n) => i - 1 = n \/ ~(i - 1 <= n)
      /\ \A i \in 0 .. n : i \in 0 .. BufCount /\ i <= n
      /\ 0 \in 0 .. BufCount /\ 0 <= n
  BY BufSizes
<1>3. /\ \A i \in 0 .. BufCount : /\ i <= n => whole[i] = f[i]
                                  /\ ~(i <= n) => whole[i] = Null
  OBVIOUS
<1>4. ASSUME NEW i \in 0 .. BufCount PROVE whole[i] = Next(whole, i)
  <2> HIDE DEF whole
  <2>1. CASE i = 0
    BY <1>1, <1>2, <1>3, <2>1
  <2>2. CASE i # 0 /\ i <= n
    <3>1. whole[i] = f[i] /\ whole[i-1] = f[i-1] /\ f[i-1] \in Bufs /\ f[i] = link[f[i-1]]
      BY <1>1, <1>2, <1>3, <2>2
    <3>2. QED BY <2>2, <3>1
  <2>3. CASE i # 0 /\ ~(i <= n)
    <3>1. whole[i] = Null /\ whole[i-1] = Null
      BY <1>1, <1>2, <1>3, <2>3
    <3>2. QED BY <2>3, <3>1, BufSizes
  <2>4. QED BY <2>1, <2>2, <2>3
<1>5. Solves(whole)
  BY <1>4
<1>6. Solves(ListAt)
  <2>1. ListAt = CHOOSE g : Solves(g)
    BY DEF ListAt
  <2> HIDE DEF Solves, whole
  <2>2. QED BY <1>5, <2>1
<1>7. \A i \in 0 .. BufCount : ListAt[i] = Next(ListAt, i)
  <2>1. ASSUME NEW g, Solves(g), NEW i \in 0 .. BufCount PROVE g[i] = Next(g, i)
    BY <2>1
  <2> HIDE DEF Solves, Next
  <2>2. QED BY <1>6, <2>1
<1> HIDE DEF Solves, whole
<1> DEFINE T == {i \in 0 .. n : ListAt[i] # f[i]}
<1>8. SUFFICES ASSUME T # {} PROVE FALSE
  OBVIOUS
<1>9. T \subseteq Nat
  OBVIOUS
<1>10. PICK x \in T : \A y \in T : x <= y
  BY <1>8, <1>9, NatMin
<1>11. x \in 0 .. n /\ ListAt[x] # f[x]
  BY <1>10
<1>12. x # 0
  BY <1>1, <1>2, <1>7, <1>11
<1>13. x - 1 \in 0 .. n-1 /\ x - 1 \in 0 .. n /\ (x - 1) + 1 = x /\ x \in 0 .. BufCount /\ ~(x <= x - 1)
  BY <1>2, <1>11, <1>12
<1>14. ListAt[x-1] = f[x-1]
  BY <1>10, <1>13
<1>15. ListAt[x] = link[f[x-1]]
  BY <1>1, <1>7, <1>12, <1>13, <1>14
<1>16. QED BY <1>1, <1>11, <1>13, <1>15

LEMMA BufferSound == BufferInv => FreeListSound
<1> SUFFICES ASSUME BufferInv PROVE FreeListSound
  OBVIOUS
<1> DEFINE free == Bufs \ TakenBufs
<1>1. PICK n \in Nat : \E f \in [0 .. n -> Bufs \cup {Null}] : IsFreeList(n, f)
  BY DEF BufferInv, ListInv
<1>2. PICK f \in [0 .. n -> Bufs \cup {Null}] : IsFreeList(n, f)
  BY <1>1
<1>3. n = Cardinality(free) /\ n <= BufCount
  BY <1>2, ListLength
<1>4. \A i \in 0 .. n : ListAt[i] = f[i]
  BY <1>2, <1>3, ListAtIsList
<1>5. /\ \A i \in 0 .. n-1 : f[i] \in free
      /\ \A b \in free : \E i \in 0 .. n-1 : f[i] = b
      /\ f[n] = Null
  BY <1>2 DEF IsFreeList
<1> HIDE DEF free
<1>6. n \in 0 .. n /\ \A i \in 0 .. n-1 : i \in 0 .. n
  OBVIOUS
<1>7. {ListAt[i] : i \in 0 .. n-1} = free /\ ListAt[n] = Null
  BY <1>4, <1>5, <1>6
<1>8. QED BY <1>3, <1>7 DEF FreeListSound, free

(* Whenever the mutex is free, the list holds exactly the data blocks that *)
(* nobody has, once each, and ends, for any number of blocks, captures and *)
(* threads that put blocks back.                                           *)
THEOREM FreeListsAreSound == LibrarySpec => []FreeListSound
<1>1. LibraryInit => BufferInv
  BY BufferStart DEF LibraryInit
<1>2. QED BY <1>1, BufferStep, BufferSound, PTL DEF LibrarySpec

-----------------------------------------------------------------------------
(***************************************************************************)
(* The decoder.                                                            *)
(***************************************************************************)
Size(f) == Len(f.layers)

LEMMA FrameFields ==
  ASSUME NEW f \in Frames
  PROVE  /\ f.layers \in Layers2 /\ f.ihl \in IpHeaders /\ f.thl \in TcpHeaders /\ f.body \in Bodies
         /\ f.pktLen \in Captures /\ f.fragment \in BOOLEAN /\ f.offload \in BOOLEAN
BY DEF Frames

LEMMA FrameNumbers ==
  ASSUME NEW f \in Frames
  PROVE  /\ f.ihl \in Nat /\ 20 <= f.ihl /\ f.ihl <= 60
         /\ f.thl \in Nat /\ f.thl <= 60
         /\ f.body \in Nat /\ f.ihl + f.body < 65536
         /\ f.pktLen \in Nat /\ f.pktLen < 65536
<1>1. IpHeaders \subseteq Nat /\ TcpHeaders \subseteq Nat /\ Bodies \subseteq Nat /\ Captures \subseteq Nat
  BY DecodeAssumption
<1>2. f.ihl \in Nat /\ f.thl \in Nat /\ f.body \in Nat /\ f.pktLen \in Nat
  BY <1>1, FrameFields
<1>3. \A len \in IpHeaders : 20 <= len /\ len <= 60
  BY DecodeAssumption
<1>4. \A len \in TcpHeaders : len <= 60
  BY DecodeAssumption
<1>5. \A len \in IpHeaders, body \in Bodies : len + body < 65536
  BY DecodeAssumption
<1>6. \A len \in Captures : len < 65536
  BY DecodeAssumption
<1>7. 20 <= f.ihl /\ f.ihl <= 60
  BY <1>3, FrameFields
<1>8. f.thl <= 60
  BY <1>4, FrameFields
<1>9. f.ihl + f.body < 65536
  BY <1>5, FrameFields
<1>10. f.pktLen < 65536
  BY <1>6, FrameFields
<1>11. QED BY <1>2, <1>7, <1>8, <1>9, <1>10

LEMMA FrameLayers ==
  ASSUME NEW f \in Frames
  PROVE  /\ f.layers \in Seq(HeaderNames) /\ Size(f) \in Nat /\ Size(f) >= 1
         /\ Ip(f) \in {"ip4", "ip6", "other"}
         /\ \A i \in 1 .. Size(f) - 1 :
              f.layers[i] = "vlan" \/ (i = Size(f) - 1 /\ f.layers[i] \in {"mpls", "pppoe"})
<1>1. f.layers \in Layers2
  BY FrameFields
<1>2. Layers2 \subseteq Seq(HeaderNames)
  BY DecodeAssumption
<1>3. \A layers \in Layers2 : layers # <<>> /\ layers[Len(layers)] \in {"ip4", "ip6", "other"}
  BY DecodeAssumption
<1>4. \A layers \in Layers2 : \A i \in 1 .. Len(layers) - 1 :
        layers[i] = "vlan" \/ (i = Len(layers) - 1 /\ layers[i] \in {"mpls", "pppoe"})
  BY DecodeAssumption
<1>5. f.layers \in Seq(HeaderNames) /\ f.layers # <<>>
  BY <1>1, <1>2, <1>3
<1>6. Len(f.layers) \in Nat \ {0}
  BY <1>5, EmptySeq
<1>7. Size(f) \in Nat /\ Size(f) >= 1
  BY <1>6 DEF Size
<1>8. Ip(f) \in {"ip4", "ip6", "other"}
  BY <1>1, <1>3 DEF Ip
<1>9. \A i \in 1 .. Size(f) - 1 :
        f.layers[i] = "vlan" \/ (i = Size(f) - 1 /\ f.layers[i] \in {"mpls", "pppoe"})
  BY <1>1, <1>4 DEF Size
<1>10. QED BY <1>5, <1>7, <1>8, <1>9

LEMMA HeaderLenValue ==
  ASSUME NEW f \in Frames, NEW header
  PROVE  /\ HeaderLen(header, f) \in Nat
         /\ header = "vlan" \/ header = "mpls" => HeaderLen(header, f) = 4
         /\ header = "pppoe" => HeaderLen(header, f) = 8
         /\ header = "ip4" => HeaderLen(header, f) = f.ihl
         /\ header = "ip6" => HeaderLen(header, f) = 40
<1>1. CASE header = "vlan" \/ header = "mpls"
  BY <1>1 DEF HeaderLen
<1>2. CASE header = "pppoe"
  BY <1>2 DEF HeaderLen
<1>3. CASE header = "ip4"
  BY <1>3, FrameNumbers DEF HeaderLen
<1>4. CASE header = "ip6"
  BY <1>4 DEF HeaderLen, Ip6Len
<1>5. CASE header \notin {"vlan", "mpls", "pppoe", "ip4", "ip6"}
  BY <1>5 DEF HeaderLen
<1>6. QED BY <1>1, <1>2, <1>3, <1>4, <1>5

(* Where the headers start is defined header by header.                    *)
LEMMA StartsValue ==
  ASSUME NEW f \in Frames
  PROVE  /\ \A k \in 1 .. Size(f) + 1 : Starts(f)[k] \in Nat
         /\ Starts(f)[1] = 14
         /\ \A k \in 1 .. Size(f) : Starts(f)[k+1] = Starts(f)[k] + HeaderLen(f.layers[k], f)
<1> DEFINE l == Size(f)
           H(k) == HeaderLen(f.layers[k], f)
           Next(g, k) == IF k = 1 THEN EtherLen ELSE g[k-1] + H(k-1)
           Solves(g) == g = [k \in 1 .. l + 1 |-> Next(g, k)]
           Upto(m, g) == \A k \in 1 .. m : g[k] = Next(g, k)
           T == {m \in Nat : m >= 1 /\ ~(\E g \in [1 .. m -> Nat] : Upto(m, g))}
<1>1. l \in Nat /\ \A k : H(k) \in Nat
  BY FrameLayers, HeaderLenValue
<1>2. EtherLen = 14 /\ 14 \in Nat
  BY DEF EtherLen
<1> HIDE DEF l, H
<1>3. T = {}
  <2>1. SUFFICES ASSUME T # {} PROVE FALSE
    OBVIOUS
  <2>2. T \subseteq Nat
    OBVIOUS
  <2> HIDE DEF T
  <2>3. PICK m \in T : \A n \in T : m <= n
    BY <2>1, <2>2, NatMin
  <2>4. m \in Nat /\ m >= 1 /\ ~(\E g \in [1 .. m -> Nat] : Upto(m, g))
    BY DEF T
  <2>5. CASE m = 1
    <3> DEFINE g == [k \in 1 .. 1 |-> 14]
    <3>1. g \in [1 .. 1 -> Nat] /\ g[1] = 14
      OBVIOUS
    <3> HIDE DEF g
    <3>2. Upto(1, g)
      BY <1>2, <3>1
    <3>3. QED BY <2>4, <2>5, <3>1, <3>2
  <2>6. CASE m # 1
    <3>1. /\ m - 1 \in Nat /\ m - 1 >= 1 /\ ~(m <= m - 1) /\ m - 1 \in 1 .. m - 1
          /\ \A k \in 1 .. m : (k \in 1 .. m - 1 /\ k # m) \/ k = m
          /\ \A k \in 1 .. m : k # 1 => k - 1 \in 1 .. m - 1 /\ k - 1 # m /\ k - 1 \in 1 .. m
          /\ \A k \in 1 .. m - 1 : k \in 1 .. m /\ k # m
      BY <2>4, <2>6
    <3>2. PICK h \in [1 .. m - 1 -> Nat] : Upto(m - 1, h)
      <4>1. m - 1 \notin T
        BY <2>3, <3>1
      <4>2. QED BY <3>1, <4>1 DEF T
    <3> DEFINE last == h[m-1] + H(m-1)
               g == [k \in 1 .. m |-> IF k = m THEN last ELSE h[k]]
    <3>3. last \in Nat
      BY <1>1, <3>1
    <3> HIDE DEF last
    <3>4. g \in [1 .. m -> Nat]
      BY <3>1, <3>3
    <3>5. \A k \in 1 .. m - 1 : g[k] = h[k]
      BY <3>1
    <3>6. g[m] = last
      BY <2>4
    <3> HIDE DEF g
    <3>7. ASSUME NEW k \in 1 .. m PROVE g[k] = Next(g, k)
      <4>1. CASE k = m
        BY <2>6, <3>1, <3>5, <3>6, <4>1 DEF last
      <4>2. CASE k \in 1 .. m - 1 /\ k = 1
        BY <3>2, <3>5, <4>2
      <4>3. CASE k \in 1 .. m - 1 /\ k # 1
        <5>1. k - 1 \in 1 .. m - 1 /\ g[k-1] = h[k-1] /\ g[k] = h[k]
          BY <3>1, <3>5, <4>3
        <5>2. QED BY <3>2, <4>3, <5>1
      <4>4. QED BY <3>1, <4>1, <4>2, <4>3
    <3>8. QED BY <2>4, <3>4, <3>7
  <2>7. QED BY <2>5, <2>6
<1>4. PICK w \in [1 .. l + 1 -> Nat] : Upto(l + 1, w)
  <2>1. l + 1 \in Nat /\ l + 1 >= 1
    BY <1>1
  <2>2. QED BY <1>3, <2>1
<1>5. Solves(w)
  BY <1>4
<1>6. Solves(Starts(f))
  <2>1. Starts(f) = CHOOSE g : Solves(g)
    BY DEF Starts, l, H, Size
  <2> HIDE DEF Solves
  <2>2. QED BY <1>5, <2>1
<1>7. \A k \in 1 .. l + 1 : Starts(f)[k] = Next(Starts(f), k)
  <2>1. ASSUME NEW g, Solves(g), NEW k \in 1 .. l + 1 PROVE g[k] = Next(g, k)
    BY <2>1
  <2> HIDE DEF Solves, Next
  <2>2. QED BY <1>6, <2>1
<1>8. 1 \in 1 .. l + 1 /\ \A k \in 1 .. l : k + 1 \in 1 .. l + 1 /\ k + 1 # 1 /\ (k + 1) - 1 = k
  BY <1>1
<1>9. Starts(f)[1] = 14
  BY <1>2, <1>7, <1>8
<1>10. \A k \in 1 .. l : Starts(f)[k+1] = Starts(f)[k] + H(k)
  BY <1>7, <1>8
<1>11. \A k \in 1 .. l + 1 : Starts(f)[k] \in Nat
  <2> DEFINE S == {k \in 1 .. l + 1 : Starts(f)[k] \notin Nat}
  <2>1. SUFFICES ASSUME S # {} PROVE FALSE
    OBVIOUS
  <2>2. S \subseteq Nat
    BY <1>1
  <2>3. PICK x \in S : \A y \in S : x <= y
    BY <2>1, <2>2, NatMin
  <2>4. x \in 1 .. l + 1 /\ Starts(f)[x] \notin Nat
    OBVIOUS
  <2>5. x # 1
    BY <1>9, <2>4
  <2>6. x - 1 \in 1 .. l + 1 /\ ~(x <= x - 1) /\ x - 1 \in 1 .. l /\ (x - 1) + 1 = x
    BY <1>1, <2>4, <2>5
  <2>7. Starts(f)[x-1] \in Nat
    BY <2>3, <2>6
  <2>8. Starts(f)[x] = Starts(f)[x-1] + H(x-1)
    BY <1>10, <2>6
  <2>9. QED BY <1>1, <2>4, <2>7, <2>8
<1>12. QED BY <1>9, <1>10, <1>11 DEF l, H

(* The headers from the k-th on are still to be passed.                    *)
From(f, k) == [i \in 1 .. Size(f) - k + 1 |-> f.layers[k + i - 1]]

Metas == [layer3 : Int, layer4 : Int, layer5 : Int, payload : Int, ip : BOOLEAN, ports : BOOLEAN]

PassedTags(f, k) == \A i \in 1 .. k - 1 : f.layers[i] = "vlan"

(* The invariant. While tags are skipped the offset is that of a header of *)
(* the frame and only VLAN tags lie before it, as a label or PPPoE ends    *)
(* the search; at the network header it is the place the definition gives; *)
(* then the meta holds the offsets, in 8 bits, and the length is that of   *)
(* the transport packet. No port of an earlier packet is in the meta       *)
(* before the transport header is reached.                                 *)
DecodeTypes == meta \in Metas /\ (step # "idle" => frame \in Frames)

InLayer2 ==
  \E k \in 1 .. Size(frame) :
    above = From(frame, k) /\ ipOffset = Starts(frame)[k] /\ PassedTags(frame, k)

InLayer3 ==
  /\ above = From(frame, Size(frame)) /\ ipOffset = IpAt(frame)
  /\ step = "ip4" /\ Decodable(frame) => Ip(frame) = "ip4"
  /\ step = "ip6" => Ip(frame) = "ip6"

L4Bytes(f) ==
  IF Ip(f) = "ip6" THEN f.body
  ELSE IF f.fragment THEN 0
  ELSE LenAfterHeader(IF f.offload THEN 0 ELSE f.ihl + f.body, f.ihl)

InLayer4 ==
  /\ Ip(frame) \in {"ip4", "ip6"}
  /\ meta.layer3 = Offset8(IpAt(frame)) /\ meta.layer4 = Offset8(L4At(frame))
  /\ l4Len = L4Bytes(frame)

DecodeInv ==
  /\ DecodeTypes
  /\ step \in {"layer2", "ip4", "ip6"} => ~meta.ports
  /\ step = "layer2" => InLayer2
  /\ step \in {"ip4", "ip6"} => InLayer3
  /\ step = "layer4" => InLayer4
  /\ DecodeAgrees

(***************************************************************************)
(* What the model computes, in numbers.                                    *)
(***************************************************************************)
LEMMA Mod256 == ASSUME NEW a \in Nat, a < 256 PROVE Offset8(a) = a
BY DEF Offset8

LEMMA Offset8Type == ASSUME NEW a \in Nat PROVE Offset8(a) \in Int
BY DEF Offset8

LEMMA LenValue ==
  ASSUME NEW f \in Frames
  PROVE  /\ LenAfterHeader(f.ihl + f.body, f.ihl) = f.body
         /\ LenAfterHeader(0, f.ihl) = 65536 - f.ihl
<1>1. f.ihl \in Nat /\ f.body \in Nat /\ 20 <= f.ihl /\ f.ihl <= 60 /\ f.ihl + f.body < 65536
  BY FrameNumbers
<1> DEFINE h == f.ihl
           b == f.body
<1> HIDE DEF h, b
<1>2. h \in Nat /\ b \in Nat /\ 20 <= h /\ h <= 60 /\ h + b < 65536
  BY <1>1 DEF h, b
<1>3. LenAfterHeader(h + b, h) = b
  BY <1>2 DEF LenAfterHeader
<1>4. LenAfterHeader(0, h) = 65536 - h
  BY <1>2 DEF LenAfterHeader
<1>5. QED BY <1>3, <1>4 DEF h, b

LEMMA L4BytesValue ==
  ASSUME NEW f \in Frames
  PROVE  /\ L4Bytes(f) \in Nat
         /\ Ip(f) = "ip6" => L4Bytes(f) = f.body
         /\ Ip(f) # "ip6" /\ f.fragment => L4Bytes(f) = 0
         /\ Ip(f) # "ip6" /\ ~f.fragment /\ f.offload => L4Bytes(f) = 65536 - f.ihl
         /\ Ip(f) # "ip6" /\ ~f.fragment /\ ~f.offload => L4Bytes(f) = f.body
<1>1. /\ Ip(f) = "ip6" => L4Bytes(f) = f.body
      /\ Ip(f) # "ip6" /\ f.fragment => L4Bytes(f) = 0
  BY DEF L4Bytes
<1>2. Ip(f) # "ip6" /\ ~f.fragment /\ f.offload => L4Bytes(f) = 65536 - f.ihl
  BY LenValue DEF L4Bytes
<1>3. Ip(f) # "ip6" /\ ~f.fragment /\ ~f.offload => L4Bytes(f) = f.body
  BY LenValue DEF L4Bytes
<1>4. f.body \in Nat /\ 65536 - f.ihl \in Nat
  <2> DEFINE h == f.ihl
  <2> HIDE DEF h
  <2>1. f.body \in Nat /\ h \in Nat /\ h <= 60
    BY FrameNumbers DEF h
  <2>2. 65536 - h \in Nat
    BY <2>1
  <2>3. QED BY <2>1, <2>2 DEF h
<1>5. QED BY <1>1, <1>2, <1>3, <1>4

(* Where the network header and what follows it start.                     *)
LEMMA NetworkValue ==
  ASSUME NEW f \in Frames
  PROVE  /\ IpAt(f) \in Nat /\ L4At(f) \in Nat
         /\ Ip(f) = "ip4" => L4At(f) = IpAt(f) + f.ihl
         /\ Ip(f) = "ip6" => L4At(f) = IpAt(f) + 40
<1>1. Size(f) \in 1 .. Size(f) /\ Size(f) \in 1 .. Size(f) + 1 /\ Size(f) + 1 \in 1 .. Size(f) + 1
  BY FrameLayers
<1>2. IpAt(f) = Starts(f)[Size(f)] /\ L4At(f) = Starts(f)[Size(f) + 1] /\ Ip(f) = f.layers[Size(f)]
  BY DEF IpAt, L4At, Ip, Size
<1>3. IpAt(f) \in Nat /\ L4At(f) \in Nat /\ L4At(f) = IpAt(f) + HeaderLen(Ip(f), f)
  BY <1>1, <1>2, StartsValue
<1>4. QED BY <1>3, HeaderLenValue

(* What is left of a frame.                                                *)
LEMMA FromValue ==
  ASSUME NEW f \in Frames, NEW k \in 1 .. Size(f)
  PROVE  /\ Head(From(f, k)) = f.layers[k]
         /\ k < Size(f) => /\ Tail(From(f, k)) = From(f, k + 1)
                           /\ From(f, k)[2] = f.layers[k + 1]
<1> DEFINE n == Size(f)
           s == From(f, k)
<1>1. n \in Nat /\ n >= 1 /\ k \in 1 .. n
  BY FrameLayers
<1> HIDE DEF n
<1>2. \A j \in 1 .. n : f.layers[j] \in HeaderNames
  BY FrameLayers, ElementOfSeq DEF n, Size
<1>3. s = [i \in 1 .. n - k + 1 |-> f.layers[k + i - 1]]
  BY DEF From, n
<1>4. n - k + 1 \in Nat /\ 1 \in 1 .. n - k + 1 /\ \A i \in 1 .. n - k + 1 : k + i - 1 \in 1 .. n
  BY <1>1
<1> HIDE DEF s
<1>5. s \in Seq(HeaderNames) /\ Len(s) = n - k + 1
  BY <1>2, <1>3, <1>4
<1>6. s[1] = f.layers[k]
  BY <1>3, <1>4, <1>1
<1>7. Head(s) = f.layers[k]
  BY <1>5, <1>6
<1>8. ASSUME k < n PROVE Tail(s) = From(f, k + 1) /\ s[2] = f.layers[k + 1]
  <2>1. /\ 2 \in 1 .. n - k + 1 /\ k + 2 - 1 = k + 1
        /\ n - (k + 1) + 1 = (n - k + 1) - 1
        /\ \A i \in 1 .. n - (k + 1) + 1 : i + 1 \in 1 .. n - k + 1 /\ k + (i + 1) - 1 = (k + 1) + i - 1
    BY <1>1, <1>8
  <2>2. s[2] = f.layers[k + 1]
    BY <1>3, <2>1
  <2>3. s # <<>>
    BY <1>4, <1>5, EmptySeq
  <2>4. /\ Tail(s) \in Seq(HeaderNames) /\ Len(Tail(s)) = Len(s) - 1
        /\ \A i \in 1 .. Len(Tail(s)) : Tail(s)[i] = s[i + 1]
    BY <1>5, <2>3, HeadTailProperties
  <2>5. Tail(s) \in [1 .. Len(Tail(s)) -> HeaderNames]
    BY <2>4, LenProperties
  <2>6. Len(Tail(s)) = n - (k + 1) + 1
    BY <1>5, <2>1, <2>4
  <2>7. \A i \in 1 .. n - (k + 1) + 1 : Tail(s)[i] = f.layers[(k + 1) + i - 1]
    BY <1>3, <2>1, <2>4, <2>6
  <2> DEFINE t == Tail(s)
  <2> HIDE DEF t
  <2>8. t = [i \in 1 .. n - (k + 1) + 1 |-> f.layers[(k + 1) + i - 1]]
    <3>1. /\ t \in [1 .. n - (k + 1) + 1 -> HeaderNames]
          /\ \A i \in 1 .. n - (k + 1) + 1 : t[i] = f.layers[(k + 1) + i - 1]
      BY <2>5, <2>6, <2>7 DEF t
    <3>2. QED BY <3>1
  <2>9. QED BY <2>2, <2>8 DEF From, n, t
<1>9. QED BY <1>7, <1>8 DEF n, s

(* A frame that can be decoded has its offsets in 8 bits.                  *)
LEMMA DecodableValue ==
  ASSUME NEW f \in Frames, Decodable(f)
  PROVE  /\ Ip(f) \in {"ip4", "ip6"}
         /\ Offset8(IpAt(f)) = IpAt(f) /\ Offset8(L4At(f)) = L4At(f)
         /\ Offset8(L4At(f) + TransportLen(f)) = L4At(f) + TransportLen(f)
         /\ TransportLen(f) \in Nat /\ (f.proto # "tcp" => TransportLen(f) = 8)
         /\ f.proto = "tcp" => TransportLen(f) = f.thl
<1> DEFINE t == TransportLen(f)
           ip == IpAt(f)
           at == L4At(f)
<1>1. Ip(f) \in {"ip4", "ip6"} /\ at + t < 256
  BY DEF Decodable
<1>2. t \in Nat /\ (f.proto # "tcp" => t = 8) /\ (f.proto = "tcp" => t = f.thl)
  BY FrameNumbers DEF TransportLen, UdpLen
<1>3. ip \in Nat /\ at \in Nat /\ ip <= at
  <2>1. f.ihl \in Nat
    BY FrameNumbers
  <2>2. QED BY <1>1, <2>1, NetworkValue
<1> HIDE DEF t, ip, at
<1>4. ip < 256 /\ at < 256 /\ at + t \in Nat /\ at + t < 256
  BY <1>1, <1>2, <1>3
<1>5. Offset8(ip) = ip /\ Offset8(at) = at /\ Offset8(at + t) = at + t
  BY <1>3, <1>4, Mod256
<1>6. QED BY <1>1, <1>2, <1>5 DEF t, ip, at

LEMMA EndValue ==
  ASSUME NEW f \in Frames, Ip(f) \in {"ip4", "ip6"}
  PROVE  EndOf(f) \in Nat /\ EndOf(f) <= f.pktLen
<1> DEFINE at == L4At(f)
           b == f.body
           p == f.pktLen
<1>1. at \in Nat /\ b \in Nat /\ p \in Nat
  BY NetworkValue, FrameNumbers
<1>2. EndOf(f) = p \/ (EndOf(f) = at + b /\ ~(at + b > p))
  BY DEF EndOf
<1> HIDE DEF at, b, p
<1>3. QED BY <1>1, <1>2 DEF p

(* The bytes of the transport packet that were captured reach to the end.  *)
LEMMA CapturedValue ==
  ASSUME NEW f \in Frames, f = frame, Decodable(f), InLayer4, ~(Ip(f) = "ip4" /\ f.fragment)
  PROVE  Captured(l4Len) = IF EndOf(f) > L4At(f) THEN EndOf(f) - L4At(f) ELSE 0
<1> DEFINE at == L4At(f)
           ip == IpAt(f)
           b == f.body
           h == f.ihl
           p == f.pktLen
           e == EndOf(f)
           l == L4Bytes(f)
<1>1. at \in Nat /\ ip \in Nat /\ b \in Nat /\ h \in Nat /\ h <= 60 /\ p \in Nat /\ p < 65536
  BY NetworkValue, FrameNumbers
<1>2. Ip(f) \in {"ip4", "ip6"}
  BY DecodableValue
<1>3. e = IF (Ip(f) = "ip4" /\ f.offload) \/ at + b > p THEN p ELSE at + b
  BY DEF EndOf
<1>4. Captured(l4Len) = IF l + at <= p THEN l ELSE IF p > at THEN p - at ELSE 0
  BY DecodableValue DEF Captured, InLayer4
<1>5. l \in Nat /\ (Ip(f) = "ip4" /\ f.offload => l = 65536 - h /\ at = ip + h)
  <2>1. l \in Nat
    BY L4BytesValue
  <2>2. Ip(f) = "ip4" /\ f.offload => l = 65536 - h
    BY L4BytesValue
  <2>3. Ip(f) = "ip4" => at = ip + h
    BY NetworkValue
  <2>4. QED BY <2>1, <2>2, <2>3
<1>6. ~(Ip(f) = "ip4" /\ f.offload) => l = b
  BY <1>2, L4BytesValue
<1> HIDE DEF at, ip, b, h, p, e, l
<1>7. CASE Ip(f) = "ip4" /\ f.offload
  <2>1. e = p /\ l = 65536 - h /\ at = ip + h
    BY <1>3, <1>5, <1>7
  <2>2. ~(l + at <= p)
    BY <1>1, <2>1
  <2>3. QED BY <1>4, <2>1, <2>2 DEF e, at
<1>8. CASE ~(Ip(f) = "ip4" /\ f.offload)
  <2>1. l = b /\ e = IF at + b > p THEN p ELSE at + b
    BY <1>3, <1>6, <1>8
  <2>2. (IF b + at <= p THEN b ELSE IF p > at THEN p - at ELSE 0) = IF e > at THEN e - at ELSE 0
    BY <1>1, <2>1
  <2>3. QED BY <1>4, <2>1, <2>2 DEF e, at
<1>9. QED BY <1>7, <1>8

(* A new packet: nothing is passed yet, and no port is left in the meta.   *)
LEMMA ClearMetaStep ==
  ASSUME DecodeInv, ClearMeta PROVE DecodeInv'
<1>1. PICK f \in Frames : frame' = f /\ above' = f.layers
  BY DEF ClearMeta
<1>2. /\ step = "idle" /\ step' = "layer2" /\ ipOffset' = 14
      /\ meta' = [meta EXCEPT !.ip = FALSE, !.ports = FALSE]
  BY DEF ClearMeta, StepGoes, EtherLen
<1>3. meta' \in Metas /\ ~meta'.ports
  BY <1>2 DEF DecodeInv, DecodeTypes, Metas
<1>4. above' = From(f, 1) /\ ipOffset' = Starts(f)[1] /\ PassedTags(f, 1) /\ 1 \in 1 .. Size(f)
  <2>1. Size(f) \in Nat /\ Size(f) >= 1 /\ f.layers \in Seq(HeaderNames)
    BY FrameLayers
  <2>2. f.layers \in [1 .. Size(f) -> HeaderNames]
    BY <2>1, LenProperties DEF Size
  <2>3. Size(f) - 1 + 1 = Size(f) /\ \A i \in 1 .. Size(f) : 1 + i - 1 = i
    BY <2>1
  <2>4. From(f, 1) = f.layers
    BY <2>2, <2>3 DEF From
  <2>5. PassedTags(f, 1)
    BY DEF PassedTags
  <2>6. QED BY <1>1, <1>2, <2>1, <2>4, <2>5, StartsValue
<1>5. InLayer2'
  BY <1>1, <1>4 DEF InLayer2
<1>6. QED BY <1>1, <1>2, <1>3, <1>5 DEF DecodeInv, DecodeTypes, DecodeAgrees

(* The header at the front, and the last one where it is a network header. *)
LEMMA FrontHeader ==
  ASSUME DecodeInv, step = "layer2", NEW f \in Frames, f = frame,
         NEW k \in 1 .. Size(f), above = From(f, k), ipOffset = Starts(f)[k], PassedTags(f, k)
  PROVE  /\ Head(above) = f.layers[k]
         /\ Head(above) \in {"ip4", "ip6", "other"} => k = Size(f)
         /\ Head(above) \in {"mpls", "pppoe"} => k = Size(f) - 1 /\ Head(above) \in Tagged(f)
         /\ Head(above) = "vlan" => k < Size(f) /\ PassedTags(f, k + 1)
         /\ ~(Head(above) \in {"ip4", "ip6", "other"}) =>
              /\ k + 1 \in 1 .. Size(f)
              /\ Tail(above) = From(f, k + 1)
              /\ above[2] = f.layers[k + 1]
              /\ Starts(f)[k + 1] = ipOffset + HeaderLen(Head(above), f)
<1>1. Head(above) = f.layers[k]
  BY FromValue
<1>2. Size(f) \in Nat /\ k \in 1 .. Size(f)
  BY FrameLayers
<1>3. k = Size(f) \/ k \in 1 .. Size(f) - 1
  BY <1>2
<1>4. CASE k = Size(f)
  <2>1. f.layers[k] \in {"ip4", "ip6", "other"}
    BY <1>4, FrameLayers DEF Ip, Size
  <2>2. QED BY <1>1, <1>4, <2>1
<1>5. CASE k \in 1 .. Size(f) - 1
  <2>1. f.layers[k] = "vlan" \/ (k = Size(f) - 1 /\ f.layers[k] \in {"mpls", "pppoe"})
    BY <1>5, FrameLayers
  <2>2. k < Size(f) /\ k + 1 \in 1 .. Size(f)
    BY <1>2, <1>5
  <2>3. Tail(above) = From(f, k + 1) /\ above[2] = f.layers[k + 1]
    BY <2>2, FromValue
  <2>4. Starts(f)[k + 1] = ipOffset + HeaderLen(Head(above), f)
    BY <1>1, StartsValue
  <2>5. ASSUME f.layers[k] = "vlan" PROVE PassedTags(f, k + 1)
    <3>1. \A i \in 1 .. (k + 1) - 1 : i \in 1 .. k - 1 \/ i = k
      BY <1>2
    <3>2. QED BY <2>5, <3>1 DEF PassedTags
  <2>6. f.layers[k] \in Tagged(f)
    BY <1>5 DEF Tagged, Size
  <2>7. QED BY <1>1, <2>1, <2>2, <2>3, <2>4, <2>5, <2>6
<1>6. QED BY <1>3, <1>4, <1>5

LEMMA Layer2Front ==
  ASSUME DecodeInv, step = "layer2"
  PROVE  /\ frame \in Frames
         /\ \E k \in 1 .. Size(frame) :
              above = From(frame, k) /\ ipOffset = Starts(frame)[k] /\ PassedTags(frame, k)
BY DEF DecodeInv, DecodeTypes, InLayer2

(* Skipped headers bring the offset to the start of the next one.          *)
LEMMA SkipVlanStep == ASSUME DecodeInv, SkipVlan PROVE DecodeInv'
<1>1. /\ step = "layer2" /\ step' = "layer2" /\ Head(above) = "vlan" /\ above' = Tail(above)
      /\ ipOffset' = ipOffset + 4 /\ frame' = frame /\ meta' = meta
  BY DEF SkipVlan, VlanLen
<1>2. PICK f \in Frames : f = frame
  BY <1>1, Layer2Front
<1>3. PICK k \in 1 .. Size(f) : above = From(f, k) /\ ipOffset = Starts(f)[k] /\ PassedTags(f, k)
  BY <1>1, <1>2, Layer2Front
<1>4. /\ k + 1 \in 1 .. Size(f) /\ above' = From(f, k + 1) /\ PassedTags(f, k + 1)
      /\ Starts(f)[k + 1] = ipOffset + HeaderLen("vlan", f)
  BY <1>1, <1>2, <1>3, FrontHeader
<1>5. ipOffset' = Starts(f)[k + 1]
  BY <1>1, <1>4, HeaderLenValue
<1>6. InLayer2'
  BY <1>1, <1>2, <1>4, <1>5 DEF InLayer2
<1>7. QED BY <1>1, <1>6 DEF DecodeInv, DecodeTypes, DecodeAgrees

(* Behind a label or a PPPoE header is the network header, which the code  *)
(* takes for IPv4.                                                         *)
LEMMA BehindTag ==
  ASSUME DecodeInv, step = "layer2", NEW tag \in {"mpls", "pppoe"}, Head(above) = tag,
         NEW f \in Frames, f = frame
  PROVE  /\ Tail(above) = From(f, Size(f)) /\ above[2] = Ip(f)
         /\ ipOffset + HeaderLen(tag, f) = IpAt(f)
         /\ tag \in Tagged(f) /\ (Decodable(f) => Ip(f) = "ip4")
<1>1. PICK k \in 1 .. Size(f) : above = From(f, k) /\ ipOffset = Starts(f)[k] /\ PassedTags(f, k)
  BY Layer2Front
<1>2. /\ k = Size(f) - 1 /\ tag \in Tagged(f)
      /\ Tail(above) = From(f, k + 1) /\ above[2] = f.layers[k + 1]
      /\ Starts(f)[k + 1] = ipOffset + HeaderLen(tag, f)
  BY <1>1, FrontHeader
<1>3. k + 1 = Size(f)
  BY <1>2, FrameLayers
<1>4. QED BY <1>2, <1>3 DEF Ip, IpAt, Size, Decodable

LEMMA SkipMplsStep == ASSUME DecodeInv, SkipMpls PROVE DecodeInv'
<1>1. PICK bit \in LowBits :
        /\ step = "layer2" /\ Head(above) = "mpls" /\ above' = Tail(above)
        /\ step' = IF bit = 0 THEN "ip4" ELSE "done"
        /\ ipOffset' = ipOffset + 4 /\ frame' = frame /\ meta' = meta
  BY DEF SkipMpls
<1>2. PICK f \in Frames : f = frame
  BY <1>1, Layer2Front
<1>3. /\ above' = From(f, Size(f)) /\ above[2] = Ip(f) /\ ipOffset' = IpAt(f)
      /\ "mpls" \in Tagged(f) /\ (Decodable(f) => Ip(f) = "ip4")
  BY <1>1, <1>2, BehindTag, HeaderLenValue
<1>4. CASE bit = 0
  <2>1. InLayer3'
    BY <1>1, <1>2, <1>3, <1>4 DEF InLayer3
  <2>2. QED BY <1>1, <1>4, <2>1 DEF DecodeInv, DecodeTypes, DecodeAgrees
<1>5. CASE bit # 0
  <2>1. ~Decodable(f)
    <3>1. SUFFICES ASSUME Decodable(f) PROVE FALSE
      OBVIOUS
    <3>2. bit = Total % 2 /\ Ip(f) = "ip4"
      BY <1>1, <1>3, <3>1 DEF LowBits
    <3>3. ~f.offload
      BY <1>2, <1>5, <3>2 DEF Total
    <3>4. (f.ihl + f.body) % 2 = 0
      BY <1>3, <3>1, <3>3 DEF Decodable
    <3>5. QED BY <1>2, <1>5, <3>2, <3>3, <3>4 DEF Total
  <2>2. QED BY <1>1, <1>2, <1>5, <2>1 DEF DecodeInv, DecodeTypes, DecodeAgrees
<1>6. QED BY <1>4, <1>5

LEMMA SkipPPPoEStep == ASSUME DecodeInv, SkipPPPoE PROVE DecodeInv'
<1>1. /\ step = "layer2" /\ Head(above) = "pppoe" /\ above' = Tail(above) /\ step' = "ip4"
      /\ ipOffset' = ipOffset + 8 /\ frame' = frame /\ meta' = meta
  BY DEF SkipPPPoE
<1>2. PICK f \in Frames : f = frame
  BY <1>1, Layer2Front
<1>3. /\ above' = From(f, Size(f)) /\ ipOffset' = IpAt(f)
      /\ (Decodable(f) => Ip(f) = "ip4")
  BY <1>1, <1>2, BehindTag, HeaderLenValue
<1>4. InLayer3'
  BY <1>1, <1>2, <1>3 DEF InLayer3
<1>5. QED BY <1>1, <1>4 DEF DecodeInv, DecodeTypes, DecodeAgrees

LEMMA NetworkTypeStep == ASSUME DecodeInv, NetworkType PROVE DecodeInv'
<1>1. /\ step = "layer2" /\ Head(above) \in {"ip4", "ip6", "other"} /\ above' = above
      /\ step' = IF Head(above) = "other" THEN "done" ELSE Head(above)
      /\ ipOffset' = ipOffset /\ frame' = frame /\ meta' = meta
  BY DEF NetworkType
<1>2. PICK f \in Frames : f = frame
  BY <1>1, Layer2Front
<1>3. PICK k \in 1 .. Size(f) : above = From(f, k) /\ ipOffset = Starts(f)[k] /\ PassedTags(f, k)
  BY <1>1, <1>2, Layer2Front
<1>4. k = Size(f) /\ Head(above) = Ip(f)
  BY <1>1, <1>2, <1>3, FrontHeader DEF Ip, Size
<1>5. above' = From(f, Size(f)) /\ ipOffset' = IpAt(f)
  BY <1>1, <1>3, <1>4 DEF IpAt, Size
<1>6. CASE Head(above) = "other"
  <2>1. ~Decodable(f)
    BY <1>4, <1>6 DEF Decodable
  <2>2. QED BY <1>1, <1>2, <1>6, <2>1 DEF DecodeInv, DecodeTypes, DecodeAgrees
<1>7. CASE Head(above) # "other"
  <2>1. step' = Ip(f) /\ Ip(f) \in {"ip4", "ip6"}
    BY <1>1, <1>4, <1>7
  <2>2. InLayer3'
    BY <1>1, <1>2, <1>5, <2>1 DEF InLayer3
  <2>3. QED BY <1>1, <2>1, <2>2 DEF DecodeInv, DecodeTypes, DecodeAgrees
<1>8. QED BY <1>6, <1>7

LEMMA Layer3Front ==
  ASSUME DecodeInv, step \in {"ip4", "ip6"}
  PROVE  /\ frame \in Frames
         /\ Head(above) = Ip(frame) /\ ipOffset = IpAt(frame)
         /\ meta \in Metas /\ ~meta.ports
         /\ step = "ip4" /\ Decodable(frame) => Ip(frame) = "ip4"
         /\ step = "ip6" => Ip(frame) = "ip6"
<1>1. PICK f \in Frames : f = frame
  BY DEF DecodeInv, DecodeTypes
<1>2. Size(f) \in 1 .. Size(f)
  BY FrameLayers
<1>3. above = From(f, Size(f))
  BY <1>1 DEF DecodeInv, InLayer3
<1>4. Head(above) = Ip(f)
  BY <1>2, <1>3, FromValue DEF Ip, Size
<1>5. QED BY <1>1, <1>4 DEF DecodeInv, DecodeTypes, InLayer3

(* A packet whose IP header was not captured has no transport header.      *)
LEMMA NotDecodedStep == ASSUME DecodeInv, NotDecoded PROVE DecodeInv'
<1>1. /\ step \in {"ip4", "ip6"} /\ step' = "done" /\ frame' = frame /\ meta' = meta
      /\ \/ step = "ip4" /\ (frame.pktLen < ipOffset + 20 \/ Head(above) # "ip4")
         \/ step = "ip6" /\ frame.pktLen < ipOffset + 40
  BY DEF NotDecoded, Ip6Len
<1>2. PICK f \in Frames : f = frame
  BY <1>1, Layer3Front
<1>3. ASSUME Decodable(f) PROVE ~HasTransport(f)
  <2> DEFINE at == L4At(f)
             ip == IpAt(f)
             p == f.pktLen
             e == EndOf(f)
             h == f.ihl
  <2>1. Ip(f) \in {"ip4", "ip6"}
    BY <1>3, DecodableValue
  <2>2. ip \in Nat /\ at \in Nat /\ p \in Nat /\ e \in Nat /\ e <= p /\ h \in Nat /\ 20 <= h
    BY <2>1, EndValue, NetworkValue, FrameNumbers
  <2>3. /\ Ip(f) = "ip4" => p < ip + 20 /\ at = ip + h
        /\ Ip(f) = "ip6" => p < ip + 40 /\ at = ip + 40
    <3>1. ipOffset = IpAt(f) /\ Head(above) = Ip(f)
      BY <1>1, <1>2, Layer3Front
    <3>2. step = "ip4" => Ip(f) = "ip4"
      BY <1>2, <1>3, Layer3Front
    <3>3. step = "ip6" => Ip(f) = "ip6"
      BY <1>2, Layer3Front
    <3>4. QED BY <1>1, <1>2, <3>1, <3>2, <3>3, NetworkValue
  <2>4. HasTransport(f) => e >= at + 20 \/ e >= at + 8
    BY DEF HasTransport, UdpLen
  <2> HIDE DEF at, ip, p, e, h
  <2>5. ~(e >= at + 20) /\ ~(e >= at + 8)
    BY <2>1, <2>2, <2>3
  <2>6. QED BY <2>4, <2>5
<1>4. meta' \in Metas /\ ~meta'.ports
  BY <1>1, Layer3Front
<1>5. QED BY <1>1, <1>2, <1>3, <1>4 DEF DecodeInv, DecodeTypes, DecodeAgrees

(* The layers of a meta, after the network header.                         *)
LEMMA DecodeIp4Step == ASSUME DecodeInv, DecodeIp4 PROVE DecodeInv'
<1>1. /\ step = "ip4" /\ step' = "layer4" /\ Head(above) = "ip4" /\ frame' = frame
      /\ meta' = [meta EXCEPT !.ip = TRUE, !.layer3 = Offset8(ipOffset),
                                !.layer4 = Offset8(ipOffset + frame.ihl)]
      /\ l4Len' = IF frame.fragment THEN 0 ELSE LenAfterHeader(Total, frame.ihl)
  BY DEF DecodeIp4, StepGoes
<1>2. PICK f \in Frames : f = frame
  BY <1>1, Layer3Front
<1>3. Ip(f) = "ip4" /\ ipOffset = IpAt(f) /\ meta \in Metas
  BY <1>1, <1>2, Layer3Front
<1>4. IpAt(f) \in Nat /\ L4At(f) \in Nat /\ L4At(f) = ipOffset + f.ihl
  BY <1>3, NetworkValue
<1>5. meta' = [meta EXCEPT !.ip = TRUE, !.layer3 = Offset8(IpAt(f)), !.layer4 = Offset8(L4At(f))]
  BY <1>1, <1>2, <1>3, <1>4
<1>6. Offset8(IpAt(f)) \in Int /\ Offset8(L4At(f)) \in Int
  BY <1>4, Offset8Type
<1>7. meta' \in Metas /\ meta'.layer3 = Offset8(IpAt(f)) /\ meta'.layer4 = Offset8(L4At(f))
  BY <1>3, <1>5, <1>6 DEF Metas
<1>8. l4Len' = L4Bytes(f)
  BY <1>1, <1>2, <1>3 DEF L4Bytes, Total
<1>9. InLayer4'
  BY <1>1, <1>2, <1>3, <1>7, <1>8 DEF InLayer4
<1>10. QED BY <1>1, <1>2, <1>7, <1>9 DEF DecodeInv, DecodeTypes, DecodeAgrees

LEMMA DecodeIp6Step == ASSUME DecodeInv, DecodeIp6 PROVE DecodeInv'
<1>1. /\ step = "ip6" /\ step' = "layer4" /\ frame' = frame /\ l4Len' = frame.body
      /\ meta' = [meta EXCEPT !.ip = TRUE, !.layer3 = Offset8(ipOffset),
                                !.layer4 = Offset8(ipOffset + 40)]
  BY DEF DecodeIp6, StepGoes, Ip6Len
<1>2. PICK f \in Frames : f = frame
  BY <1>1, Layer3Front
<1>3. Ip(f) = "ip6" /\ ipOffset = IpAt(f) /\ meta \in Metas
  BY <1>1, <1>2, Layer3Front
<1>4. IpAt(f) \in Nat /\ L4At(f) \in Nat /\ L4At(f) = ipOffset + 40
  BY <1>3, NetworkValue
<1>5. meta' = [meta EXCEPT !.ip = TRUE, !.layer3 = Offset8(IpAt(f)), !.layer4 = Offset8(L4At(f))]
  BY <1>1, <1>3, <1>4
<1>6. Offset8(IpAt(f)) \in Int /\ Offset8(L4At(f)) \in Int
  BY <1>4, Offset8Type
<1>7. meta' \in Metas /\ meta'.layer3 = Offset8(IpAt(f)) /\ meta'.layer4 = Offset8(L4At(f))
  BY <1>3, <1>5, <1>6 DEF Metas
<1>8. l4Len' = L4Bytes(f)
  BY <1>1, <1>2, <1>3 DEF L4Bytes
<1>9. InLayer4'
  BY <1>1, <1>2, <1>3, <1>7, <1>8 DEF InLayer4
<1>10. QED BY <1>1, <1>2, <1>7, <1>9 DEF DecodeInv, DecodeTypes, DecodeAgrees

(* What the code finds at the transport header.                            *)
LEMMA Layer4Front ==
  ASSUME DecodeInv, step = "layer4", NEW f \in Frames, f = frame
  PROVE  /\ meta \in Metas /\ Captured(l4Len) \in Nat
         /\ Decodable(f) =>
              /\ meta.layer3 = IpAt(f) /\ meta.layer4 = L4At(f)
              /\ f.proto # "other" /\ Captured(l4Len) >= (IF f.proto = "tcp" THEN 20 ELSE 8)
                   <=> HasTransport(f)
              /\ HasTransport(f) => L4At(f) + Captured(l4Len) = EndOf(f)
<1>1. meta \in Metas /\ InLayer4
  BY DEF DecodeInv, DecodeTypes
<1>2. Captured(l4Len) \in Nat
  <2> DEFINE l == l4Len
             m == meta.layer4
             p == f.pktLen
  <2>1. l \in Nat /\ m \in Int /\ p \in Nat
    BY <1>1, L4BytesValue, FrameNumbers DEF InLayer4, Metas
  <2>2. Captured(l4Len) = IF l + m <= p THEN l ELSE IF p > m THEN p - m ELSE 0
    BY DEF Captured
  <2> HIDE DEF l, m, p
  <2>3. QED BY <2>1, <2>2
<1>3. ASSUME Decodable(f)
      PROVE  /\ meta.layer3 = IpAt(f) /\ meta.layer4 = L4At(f)
             /\ f.proto # "other" /\ Captured(l4Len) >= (IF f.proto = "tcp" THEN 20 ELSE 8)
                  <=> HasTransport(f)
             /\ HasTransport(f) => L4At(f) + Captured(l4Len) = EndOf(f)
  <2> DEFINE at == L4At(f)
             e == EndOf(f)
             c == Captured(l4Len)
             t == IF f.proto = "tcp" THEN 20 ELSE 8
  <2>1. Ip(f) \in {"ip4", "ip6"}
    BY <1>3, DecodableValue
  <2>2. meta.layer3 = IpAt(f) /\ meta.layer4 = at
    BY <1>1, <1>3, DecodableValue DEF InLayer4
  <2>3. at \in Nat /\ e \in Nat /\ e <= f.pktLen /\ f.pktLen \in Nat /\ t \in {8, 20}
    BY <2>1, NetworkValue, EndValue, FrameNumbers
  <2>4. HasTransport(f) <=> f.proto # "other" /\ ~(Ip(f) = "ip4" /\ f.fragment) /\ e >= at + t
    BY DEF HasTransport, UdpLen
  <2>5. CASE Ip(f) = "ip4" /\ f.fragment
    <3>1. l4Len = 0
      BY <1>1, <2>5, L4BytesValue DEF InLayer4
    <3>2. c = IF 0 + at <= f.pktLen THEN 0 ELSE IF f.pktLen > at THEN f.pktLen - at ELSE 0
      BY <2>2, <3>1 DEF Captured
    <3>3. c = 0
      BY <2>3, <3>2
    <3>4. ~(c >= t)
      BY <2>3, <3>3
    <3>5. QED BY <2>2, <2>4, <2>5, <3>4
  <2>6. CASE ~(Ip(f) = "ip4" /\ f.fragment)
    <3>1. c = IF e > at THEN e - at ELSE 0
      BY <1>1, <1>3, <2>6, CapturedValue
    <3> HIDE DEF at, e, c, t
    <3>2. (c >= t <=> e >= at + t) /\ (e >= at + t => at + c = e)
      BY <2>3, <3>1
    <3>3. QED BY <2>2, <2>4, <2>6, <3>2 DEF at, e, c, t
  <2>7. QED BY <2>5, <2>6
<1>4. QED BY <1>1, <1>2, <1>3

(* The transport header, or none.                                          *)
LEMMA DecodeTcpStep == ASSUME DecodeInv, DecodeTcp PROVE DecodeInv'
<1> DEFINE len == Captured(l4Len)
<1>1. /\ step = "layer4" /\ step' = "done" /\ frame' = frame
      /\ frame.proto = "tcp" /\ len >= 20
      /\ meta' = IF len >= frame.thl
                 THEN [meta EXCEPT !.ports = TRUE, !.payload = len - frame.thl,
                                   !.layer5 = Offset8(meta.layer4 + frame.thl)]
                 ELSE [meta EXCEPT !.ports = TRUE]
  BY DEF DecodeTcp, StepGoes
<1>2. PICK f \in Frames : f = frame
  BY <1>1 DEF DecodeInv, DecodeTypes
<1>3. /\ meta \in Metas /\ len \in Nat
      /\ Decodable(f) =>
           /\ meta.layer3 = IpAt(f) /\ meta.layer4 = L4At(f)
           /\ f.proto # "other" /\ len >= (IF f.proto = "tcp" THEN 20 ELSE 8) <=> HasTransport(f)
           /\ HasTransport(f) => L4At(f) + len = EndOf(f)
  BY <1>1, <1>2, Layer4Front
<1>4. f.thl \in Nat
  BY FrameNumbers
<1> HIDE DEF len
<1>5. meta' \in Metas /\ meta'.ports
  <2>1. len - f.thl \in Int
    BY <1>3, <1>4
  <2>2. Offset8(meta.layer4 + f.thl) \in Int
    <3>1. meta.layer4 + f.thl \in Int
      BY <1>3, <1>4 DEF Metas
    <3>2. QED BY <3>1 DEF Offset8
  <2>3. QED BY <1>1, <1>2, <1>3, <2>1, <2>2 DEF Metas
<1>6. ASSUME Decodable(f)
      PROVE  /\ HasTransport(f)
             /\ meta'.layer3 = IpAt(f) /\ meta'.layer4 = L4At(f)
             /\ meta'.layer5 = L4At(f) + TransportLen(f)
             /\ meta'.layer5 + meta'.payload = EndOf(f)
  <2> DEFINE at == L4At(f)
             e == EndOf(f)
             h == f.thl
  <2>1. HasTransport(f) /\ at + len = e /\ meta.layer3 = IpAt(f) /\ meta.layer4 = at
    BY <1>1, <1>2, <1>3, <1>6
  <2>2. e >= at + h
    BY <1>1, <1>2, <1>6, <2>1 DEF Decodable
  <2>3. at \in Nat /\ h \in Nat
    BY <1>4, NetworkValue, DecodableValue, <1>6
  <2>4. Offset8(at + h) = at + h /\ TransportLen(f) = h
    BY <1>1, <1>2, <1>6, DecodableValue
  <2> HIDE DEF at, e, h
  <2>5. len >= h /\ (at + h) + (len - h) = e
    BY <1>3, <2>1, <2>2, <2>3
  <2>6. meta' = [meta EXCEPT !.ports = TRUE, !.payload = len - h, !.layer5 = at + h]
    BY <1>1, <1>2, <2>1, <2>4, <2>5 DEF h
  <2>7. /\ meta'.layer3 = meta.layer3 /\ meta'.layer4 = meta.layer4
        /\ meta'.layer5 = at + h /\ meta'.payload = len - h
    BY <1>3, <2>6 DEF Metas
  <2>8. QED BY <2>1, <2>4, <2>5, <2>7 DEF at, e
<1>7. QED BY <1>1, <1>2, <1>5, <1>6 DEF DecodeInv, DecodeTypes, DecodeAgrees

LEMMA DecodeUdpStep == ASSUME DecodeInv, DecodeUdp PROVE DecodeInv'
<1> DEFINE len == Captured(l4Len)
<1>1. /\ step = "layer4" /\ step' = "done" /\ frame' = frame
      /\ frame.proto = "udp" /\ len >= 8
      /\ meta' = [meta EXCEPT !.ports = TRUE, !.payload = len - 8,
                              !.layer5 = Offset8(meta.layer4 + 8)]
  BY DEF DecodeUdp, StepGoes, UdpLen
<1>2. PICK f \in Frames : f = frame
  BY <1>1 DEF DecodeInv, DecodeTypes
<1>3. /\ meta \in Metas /\ len \in Nat
      /\ Decodable(f) =>
           /\ meta.layer3 = IpAt(f) /\ meta.layer4 = L4At(f)
           /\ f.proto # "other" /\ len >= (IF f.proto = "tcp" THEN 20 ELSE 8) <=> HasTransport(f)
           /\ HasTransport(f) => L4At(f) + len = EndOf(f)
  BY <1>1, <1>2, Layer4Front
<1> HIDE DEF len
<1>4. meta' \in Metas /\ meta'.ports
  <2>1. len - 8 \in Int
    BY <1>3
  <2>2. Offset8(meta.layer4 + 8) \in Int
    <3>1. meta.layer4 + 8 \in Int
      BY <1>3 DEF Metas
    <3>2. QED BY <3>1 DEF Offset8
  <2>3. QED BY <1>1, <1>3, <2>1, <2>2 DEF Metas
<1>5. ASSUME Decodable(f)
      PROVE  /\ HasTransport(f)
             /\ meta'.layer3 = IpAt(f) /\ meta'.layer4 = L4At(f)
             /\ meta'.layer5 = L4At(f) + TransportLen(f)
             /\ meta'.layer5 + meta'.payload = EndOf(f)
  <2> DEFINE at == L4At(f)
             e == EndOf(f)
  <2>1. HasTransport(f) /\ at + len = e /\ meta.layer3 = IpAt(f) /\ meta.layer4 = at
    BY <1>1, <1>2, <1>3, <1>5
  <2>2. at \in Nat
    BY NetworkValue, DecodableValue, <1>5
  <2>3. Offset8(at + 8) = at + 8 /\ TransportLen(f) = 8
    BY <1>1, <1>2, <1>5, DecodableValue
  <2> HIDE DEF at, e
  <2>4. (at + 8) + (len - 8) = e
    BY <1>3, <2>1, <2>2
  <2>5. meta' = [meta EXCEPT !.ports = TRUE, !.payload = len - 8, !.layer5 = at + 8]
    BY <1>1, <2>1, <2>3
  <2>6. /\ meta'.layer3 = meta.layer3 /\ meta'.layer4 = meta.layer4
        /\ meta'.layer5 = at + 8 /\ meta'.payload = len - 8
    BY <1>3, <2>5 DEF Metas
  <2>7. QED BY <2>1, <2>3, <2>4, <2>6 DEF at, e
<1>6. QED BY <1>1, <1>2, <1>4, <1>5 DEF DecodeInv, DecodeTypes, DecodeAgrees

LEMMA DecodeNoPortsStep == ASSUME DecodeInv, DecodeNoPorts PROVE DecodeInv'
<1> DEFINE len == Captured(l4Len)
<1>1. /\ step = "layer4" /\ step' = "done" /\ frame' = frame
      /\ ~(frame.proto = "tcp" /\ len >= 20) /\ ~(frame.proto = "udp" /\ len >= 8)
      /\ meta' = [meta EXCEPT !.ports = FALSE]
  BY DEF DecodeNoPorts, StepGoes, UdpLen
<1>2. PICK f \in Frames : f = frame
  BY <1>1 DEF DecodeInv, DecodeTypes
<1>3. /\ meta \in Metas
      /\ Decodable(f) =>
           (f.proto # "other" /\ len >= (IF f.proto = "tcp" THEN 20 ELSE 8) <=> HasTransport(f))
  BY <1>1, <1>2, Layer4Front
<1> HIDE DEF len
<1>4. meta' \in Metas /\ ~meta'.ports
  BY <1>1, <1>3 DEF Metas
<1>5. f.proto \in {"tcp", "udp", "other"}
  BY DEF Frames
<1>6. Decodable(f) => ~HasTransport(f)
  BY <1>1, <1>2, <1>3, <1>5
<1>7. QED BY <1>1, <1>2, <1>4, <1>6 DEF DecodeInv, DecodeTypes, DecodeAgrees

(* DecodeInv holds from the start, and every step of the library keeps it. *)
LEMMA DecodeStart == DecodeInit => DecodeInv
BY DEF DecodeInit, DecodeInv, DecodeTypes, DecodeAgrees, Metas, Stale

LEMMA DecodeStep == DecodeInv /\ [LibraryNext]_libraryVars => DecodeInv'
<1> SUFFICES ASSUME DecodeInv, [LibraryNext]_libraryVars PROVE DecodeInv'
  OBVIOUS
<1>1. CASE UNCHANGED decodeVars
  BY <1>1 DEF decodeVars, DecodeInv, DecodeTypes, InLayer2, InLayer3, InLayer4, DecodeAgrees
<1>2. CASE DecodeNext
  BY <1>2, ClearMetaStep, SkipVlanStep, SkipMplsStep, SkipPPPoEStep, NetworkTypeStep, NotDecodedStep,
     DecodeIp4Step, DecodeIp6Step, DecodeTcpStep, DecodeUdpStep, DecodeNoPortsStep DEF DecodeNext
<1>3. QED BY <1>1, <1>2 DEF LibraryNext, libraryVars

(* ProcessPacketBasic finds the layers of every frame that Decodable       *)
(* admits (see there) where the frame has them, whatever the tags, the     *)
(* options and the length of the capture are, and leaves nothing of an     *)
(* earlier packet in the meta.                                             *)
THEOREM DecoderAgrees == LibrarySpec => []DecodeAgrees
<1>1. LibraryInit => DecodeInv
  BY DecodeStart DEF LibraryInit
<1>2. DecodeInv => DecodeAgrees
  BY DEF DecodeInv
<1>3. QED BY <1>1, <1>2, DecodeStep, PTL DEF LibrarySpec
=============================================================================
