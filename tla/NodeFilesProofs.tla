-------------------------- MODULE NodeFilesProofs ---------------------------
(* Proofs about NodeFiles, for any nodes, party indices and aux generations. *)
EXTENDS NodeFiles, FiniteSetTheorems, TLAPS

----------------------------------------------------------------------------
(* The inductive invariant                                                  *)

\* What the key file holds while a node is up, after it was up, and after it
\* refused to start.
KeyInv ==
  \A n \in Nodes :
    /\ pc[n] = "up" => keyFile[n] = Whole(id[n])
    /\ pc[n] = "write" => id[n] \in 1..MaxKeys
    /\ pc[n] = "save" => id[n] \in 1..MaxKeys
    /\ n \notin unread /\ seen[n] # {} =>
         /\ pc[n] \notin {"save", "write"}
         /\ \E k \in 1..MaxKeys : seen[n] = {k} /\ keyFile[n] = Whole(k)
    /\ n \notin unread /\ n \in refused =>
         /\ pc[n] \in {"down", "load"}
         /\ seen[n] = {}
         /\ keyFile[n] = Torn

\* A set of primes belongs to one party index, in files and in use; the
\* parties of one aux generation have different indices.
HasPrimes(n) == aux[n].pc \in {"save", "write", "use"}
InCache(i, p) == cache[i].what = "whole" /\ cache[i].item = p
PrimesInv ==
  /\ \A i, j \in Indices : \A p \in 1..primes :
       InCache(i, p) /\ InCache(j, p) => i = j
  /\ \A n \in Nodes, i \in Indices :
       HasPrimes(n) /\ InCache(i, aux[n].primes) => i = aux[n].index
  /\ \A m, n \in Nodes :
       HasPrimes(m) /\ HasPrimes(n) /\ aux[m].primes = aux[n].primes
         => aux[m].index = aux[n].index
  /\ \A m, n \in Nodes :
       /\ m # n
       /\ aux[m] # NoAux /\ aux[n] # NoAux
       /\ aux[m].generation = aux[n].generation
       => aux[m].index # aux[n].index

IInv == TypeOK /\ KeyInv /\ PrimesInv

----------------------------------------------------------------------------
(* Types                                                                    *)

\* What is in a file of one of S.
LEMMA FileItem ==
  ASSUME NEW S, NEW f \in Files(S)
  PROVE  /\ f.what = "whole" => f = Whole(f.item) /\ f.item \in S
         /\ f.what = "nothing" <=> f = NoFile
         /\ f.what = "part" <=> f = Torn
BY DEF Files, NoFile, Torn, Whole

\* A first start finds no files.
LEMMA InitIInv == Init => IInv
<1> SUFFICES ASSUME Init PROVE IInv
  OBVIOUS
<1>1. TypeOK
  BY FilesAssumption DEF Init, TypeOK, Files, NoFile, NoAux, Auxes
<1>2. KeyInv
  BY DEF Init, KeyInv
<1>3. PrimesInv
  BY DEF Init, PrimesInv, HasPrimes, InCache, NoFile, NoAux
<1>. QED
  BY <1>1, <1>2, <1>3 DEF IInv

\* Every step keeps the types.
LEMMA TypeStep == IInv /\ [Next]_vars => TypeOK'
<1> SUFFICES ASSUME IInv, [Next]_vars PROVE TypeOK'
  OBVIOUS
<1> USE FilesAssumption
<1>0. TypeOK
  BY DEF IInv
<1>1. ASSUME NEW n \in Nodes, Start(n) PROVE TypeOK'
  BY <1>0, <1>1 DEF Start, TypeOK
<1>2. ASSUME NEW n \in Nodes, LoadKey(n) PROVE TypeOK'
  <2>1. keyFile[n].item \in 1..MaxKeys
    BY <1>0, <1>2, FileItem DEF LoadKey, TypeOK
  <2>. QED
    BY <1>0, <1>2, <2>1 DEF LoadKey, GoUp, TypeOK
<1>3. ASSUME NEW n \in Nodes, RefuseStart(n) PROVE TypeOK'
  BY <1>0, <1>3 DEF RefuseStart, TypeOK
<1>4. ASSUME NEW n \in Nodes, GenerateKey(n) PROVE TypeOK'
  <2>1. /\ keys' \in [Nodes -> 0..MaxKeys]
        /\ id' \in [Nodes -> 0..MaxKeys]
        /\ pc' \in [Nodes -> {"down", "load", "save", "write", "up"}]
        /\ unread' \subseteq Nodes
    BY <1>0, <1>4 DEF GenerateKey, TypeOK
  <2>. QED
    BY <1>0, <1>4, <2>1 DEF GenerateKey, TypeOK
<1>5. ASSUME NEW n \in Nodes, OpenKeyFile(n) PROVE TypeOK'
  <2>1. keyFile' \in [Nodes -> Files(1..MaxKeys)]
    BY <1>0, <1>5 DEF OpenKeyFile, TypeOK, Files
  <2>. QED
    BY <1>0, <1>5, <2>1 DEF OpenKeyFile, TypeOK
<1>6. ASSUME NEW n \in Nodes, WriteKeyFile(n) PROVE TypeOK'
  <2>1. id[n] \in 1..MaxKeys
    BY <1>6 DEF IInv, KeyInv, WriteKeyFile
  <2>2. keyFile' \in [Nodes -> Files(1..MaxKeys)]
    BY <1>0, <1>6, <2>1 DEF WriteKeyFile, TypeOK, Files
  <2>. QED
    BY <1>0, <1>6, <2>1, <2>2 DEF WriteKeyFile, GoUp, TypeOK
<1>7. ASSUME NEW n \in Nodes, NEW g \in Generations, NEW i \in Indices,
             StartAux(n, g, i)
      PROVE  TypeOK'
  <2>1. aux' \in [Nodes -> Auxes \cup {NoAux}]
    BY <1>0, <1>7 DEF StartAux, TypeOK, Auxes
  <2>2. \A m \in Nodes :
          aux'[m].pc \in {"save", "write", "use"} => aux'[m].primes \in 1..primes
    BY <1>0, <1>7 DEF StartAux, TypeOK
  <2>. QED
    BY <1>0, <1>7, <2>1, <2>2 DEF StartAux, TypeOK
<1>8. ASSUME NEW n \in Nodes, LoadPrimes(n) PROVE TypeOK'
  <2>1. aux[n] \in Auxes
    BY <1>0, <1>8 DEF LoadPrimes, TypeOK, NoAux
  <2>2. cache[PrimesPath(aux[n].index)].item \in 1..primes
    BY <1>0, <1>8, <2>1, FileItem DEF LoadPrimes, TypeOK, Auxes, PrimesPath
  <2>3. aux' \in [Nodes -> Auxes \cup {NoAux}]
    <3> DEFINE p == cache[PrimesPath(aux[n].index)].item
               a == [aux[n] EXCEPT !.pc = "use", !.primes = p]
    <3>1. primes \in 0..MaxPrimes /\ p \in 0..MaxPrimes
      BY <1>0, <2>2 DEF TypeOK
    <3>2. a \in Auxes
      BY <2>1, <3>1 DEF Auxes
    <3>3. aux' = [aux EXCEPT ![n] = a]
      BY <1>0, <1>8 DEF LoadPrimes, TypeOK
    <3>. QED
      BY <1>0, <3>2, <3>3 DEF TypeOK
  <2>4. \A m \in Nodes :
          aux'[m].pc \in {"save", "write", "use"} => aux'[m].primes \in 1..primes
    BY <1>0, <1>8, <2>1, <2>2 DEF LoadPrimes, TypeOK, Auxes
  <2>. QED
    BY <1>0, <1>8, <2>3, <2>4 DEF LoadPrimes, TypeOK
<1>9. ASSUME NEW n \in Nodes, GeneratePrimes(n) PROVE TypeOK'
  <2>1. aux[n] \in Auxes
    BY <1>0, <1>9 DEF GeneratePrimes, TypeOK, NoAux
  <2>2. primes' = primes + 1 /\ primes \in 0..MaxPrimes /\ primes' \in 0..MaxPrimes
    BY <1>0, <1>9 DEF GeneratePrimes, TypeOK
  <2>3. aux' \in [Nodes -> Auxes \cup {NoAux}]
    BY <1>0, <1>9, <2>1, <2>2 DEF GeneratePrimes, TypeOK, Auxes
  <2>4. \A m \in Nodes :
          aux'[m].pc \in {"save", "write", "use"} => aux'[m].primes \in 1..primes'
    BY <1>0, <1>9, <2>1, <2>2 DEF GeneratePrimes, TypeOK, Auxes
  <2>5. cache' \in [Indices -> Files(1..primes')]
    BY <1>0, <1>9, <2>2 DEF GeneratePrimes, TypeOK, Files
  <2>. QED
    BY <1>0, <1>9, <2>2, <2>3, <2>4, <2>5 DEF GeneratePrimes, TypeOK
<1>10. ASSUME NEW n \in Nodes, OpenPrimesFile(n) PROVE TypeOK'
  <2>1. aux[n] \in Auxes
    BY <1>0, <1>10 DEF OpenPrimesFile, TypeOK, NoAux
  <2>2. aux' \in [Nodes -> Auxes \cup {NoAux}]
    BY <1>0, <1>10, <2>1 DEF OpenPrimesFile, TypeOK, Auxes
  <2>3. \A m \in Nodes :
          aux'[m].pc \in {"save", "write", "use"} => aux'[m].primes \in 1..primes
    BY <1>0, <1>10, <2>1 DEF OpenPrimesFile, TypeOK, Auxes
  <2>4. cache' \in [Indices -> Files(1..primes)]
    BY <1>0, <1>10 DEF OpenPrimesFile, TypeOK, Files
  <2>. QED
    BY <1>0, <1>10, <2>2, <2>3, <2>4 DEF OpenPrimesFile, TypeOK
<1>11. ASSUME NEW n \in Nodes, NEW fails \in BOOLEAN, WritePrimesFile(n, fails)
       PROVE  TypeOK'
  <2>1. aux[n] \in Auxes
    BY <1>0, <1>11 DEF WritePrimesFile, TypeOK, NoAux
  <2>2. aux' \in [Nodes -> Auxes \cup {NoAux}]
    BY <1>0, <1>11, <2>1 DEF WritePrimesFile, TypeOK, Auxes
  <2>3. \A m \in Nodes :
          aux'[m].pc \in {"save", "write", "use"} => aux'[m].primes \in 1..primes
    BY <1>0, <1>11, <2>1 DEF WritePrimesFile, TypeOK, Auxes
  <2>4. cache' \in [Indices -> Files(1..primes)]
    BY <1>0, <1>11 DEF WritePrimesFile, TypeOK, Files
  <2>. QED
    BY <1>0, <1>11, <2>2, <2>3, <2>4 DEF WritePrimesFile, TypeOK
<1>12. ASSUME NEW n \in Nodes, FinishAux(n) PROVE TypeOK'
  BY <1>0, <1>12 DEF FinishAux, TypeOK, NoAux
<1>13. ASSUME NEW n \in Nodes, Stop(n) PROVE TypeOK'
  BY <1>0, <1>13 DEF Stop, TypeOK, NoAux
<1>14. CASE UNCHANGED vars
  BY <1>0, <1>14 DEF vars, TypeOK
<1>. QED
  BY <1>1, <1>2, <1>3, <1>4, <1>5, <1>6, <1>7, <1>8, <1>9, <1>10, <1>11, <1>12,
     <1>13, <1>14 DEF Next, StartStep, AuxStep

----------------------------------------------------------------------------
(* The identity key                                                         *)

\* Every step keeps the key file as KeyInv has it.
LEMMA KeyStep == IInv /\ [Next]_vars => KeyInv'
<1> SUFFICES ASSUME IInv, [Next]_vars PROVE KeyInv'
  OBVIOUS
<1> USE FilesAssumption
<1>0. TypeOK /\ KeyInv
  BY DEF IInv
<1>1. ASSUME NEW n \in Nodes, Start(n) PROVE KeyInv'
  BY <1>0, <1>1 DEF Start, TypeOK, KeyInv
<1>2. ASSUME NEW n \in Nodes, LoadKey(n) PROVE KeyInv'
  <2>1. keyFile[n].item \in 1..MaxKeys /\ keyFile[n] = Whole(keyFile[n].item)
    BY <1>0, <1>2, FileItem DEF LoadKey, TypeOK
  <2>2. \A k : Whole(k).item = k /\ Whole(k) # Torn
    BY DEF Whole, Torn
  <2>3. ASSUME n \notin unread, seen[n] # {} PROVE seen[n] = {keyFile[n].item}
    BY <1>0, <2>2, <2>3 DEF KeyInv
  <2>4. seen[n] \cup {keyFile[n].item} # {}
    OBVIOUS
  <2>5. /\ pc[n] = "load" /\ pc'[n] = "up"
        /\ id'[n] = keyFile[n].item
        /\ seen'[n] = seen[n] \cup {keyFile[n].item}
        /\ \A m \in Nodes : m # n => pc'[m] = pc[m] /\ id'[m] = id[m] /\ seen'[m] = seen[m]
        /\ keyFile' = keyFile /\ unread' = unread /\ refused' = refused
    BY <1>0, <1>2 DEF LoadKey, GoUp, TypeOK
  <2>6. n \notin unread => seen'[n] = {keyFile[n].item} /\ n \notin refused
    BY <1>0, <2>1, <2>2, <2>3, <2>5 DEF KeyInv
  <2>. QED
    BY <1>0, <2>1, <2>5, <2>6 DEF KeyInv
<1>3. ASSUME NEW n \in Nodes, RefuseStart(n) PROVE KeyInv'
  <2>1. keyFile[n] = Torn /\ \A k : keyFile[n] # Whole(k)
    BY <1>0, <1>3, FileItem DEF RefuseStart, TypeOK, Torn, Whole
  <2>. QED
    BY <1>0, <1>3, <2>1 DEF RefuseStart, TypeOK, KeyInv
<1>4. ASSUME NEW n \in Nodes, GenerateKey(n) PROVE KeyInv'
  <2>1. keys[n] + 1 \in 1..MaxKeys
    BY <1>0, <1>4 DEF GenerateKey, TypeOK
  <2>2. \A k : NoFile # Whole(k) /\ NoFile # Torn
    BY DEF NoFile, Whole, Torn
  <2>3. n \notin unread' => seen[n] = {} /\ n \notin refused
    BY <1>0, <1>4, <2>2 DEF GenerateKey, KeyInv
  <2>. QED
    BY <1>0, <1>4, <2>1, <2>3 DEF GenerateKey, TypeOK, KeyInv
<1>5. ASSUME NEW n \in Nodes, OpenKeyFile(n) PROVE KeyInv'
  BY <1>0, <1>5 DEF OpenKeyFile, TypeOK, KeyInv
<1>6. ASSUME NEW n \in Nodes, WriteKeyFile(n) PROVE KeyInv'
  <2>1. id[n] \in 1..MaxKeys
    BY <1>0, <1>6 DEF KeyInv, WriteKeyFile
  <2>2. n \notin unread => seen[n] = {} /\ n \notin refused
    BY <1>0, <1>6 DEF KeyInv, WriteKeyFile
  <2>. QED
    BY <1>0, <1>6, <2>1, <2>2 DEF WriteKeyFile, GoUp, TypeOK, KeyInv
<1>7. ASSUME NEW n \in Nodes, Stop(n) PROVE KeyInv'
  BY <1>0, <1>7 DEF Stop, TypeOK, KeyInv
<1>8. CASE UNCHANGED <<pc, id, keyFile, seen, refused, unread>>
  BY <1>0, <1>8 DEF KeyInv
<1>. QED
  BY <1>1, <1>2, <1>3, <1>4, <1>5, <1>6, <1>7, <1>8
  DEF Next, vars, StartStep, AuxStep, StartAux, LoadPrimes, GeneratePrimes,
      OpenPrimesFile, WritePrimesFile, FinishAux

----------------------------------------------------------------------------
(* The primes                                                               *)

\* Every step keeps sets of primes apart.
LEMMA PrimesStep == IInv /\ [Next]_vars => PrimesInv'
<1> SUFFICES ASSUME IInv, [Next]_vars PROVE PrimesInv'
  OBVIOUS
<1> USE FilesAssumption
<1>0. TypeOK /\ PrimesInv
  BY DEF IInv
<1>1. ASSUME NEW n \in Nodes, NEW g \in Generations, NEW i \in Indices,
             StartAux(n, g, i)
      PROVE  PrimesInv'
  <2>1. \A m \in Nodes : HasPrimes(m)' => m # n /\ HasPrimes(m) /\ aux'[m] = aux[m]
    BY <1>0, <1>1 DEF StartAux, HasPrimes, TypeOK
  <2>2. /\ aux'[n] # NoAux
        /\ aux'[n].generation = g
        /\ aux'[n].index = i
    BY <1>0, <1>1 DEF StartAux, TypeOK, NoAux
  <2>3. \A m \in Nodes \ {n} : aux'[m] = aux[m]
    BY <1>0, <1>1 DEF StartAux, TypeOK
  <2>4. /\ \A l, m \in Nodes :
             /\ l # m
             /\ aux'[l] # NoAux /\ aux'[m] # NoAux
             /\ aux'[l].generation = aux'[m].generation
             => aux'[l].index # aux'[m].index
    BY <1>0, <1>1, <2>2, <2>3 DEF StartAux, PrimesInv
  <2>5. cache' = cache /\ primes' = primes
    BY <1>1 DEF StartAux
  <2>. QED
    BY <1>0, <2>1, <2>4, <2>5 DEF PrimesInv, InCache
<1>2. ASSUME NEW n \in Nodes, LoadPrimes(n) PROVE PrimesInv'
  <2>1. aux[n] \in Auxes /\ aux[n] # NoAux
    BY <1>0, <1>2 DEF LoadPrimes, TypeOK, NoAux, Auxes
  <2>2. /\ aux'[n].pc = "use" /\ aux'[n] # NoAux
        /\ aux'[n].generation = aux[n].generation
        /\ aux'[n].index = aux[n].index
        /\ InCache(aux[n].index, aux'[n].primes)
    BY <1>0, <1>2, <2>1 DEF LoadPrimes, TypeOK, Auxes, NoAux, InCache, PrimesPath
  <2>3. \A m \in Nodes \ {n} : aux'[m] = aux[m]
    BY <1>0, <1>2 DEF LoadPrimes, TypeOK
  <2>4. cache' = cache /\ primes' = primes /\ aux[n].index \in Indices
    BY <1>2, <2>1 DEF LoadPrimes, Auxes
  <2>5. aux'[n].primes \in 1..primes
    BY <1>0, <1>2, <2>1, FileItem DEF LoadPrimes, TypeOK, Auxes, PrimesPath
  <2>6. \A m \in Nodes, i \in Indices :
          HasPrimes(m)' /\ InCache(i, aux'[m].primes) => i = aux'[m].index
    BY <1>0, <2>2, <2>3, <2>4, <2>5 DEF PrimesInv, HasPrimes
  <2>7. \A l, m \in Nodes :
          HasPrimes(l)' /\ HasPrimes(m)' /\ aux'[l].primes = aux'[m].primes
            => aux'[l].index = aux'[m].index
    <3>1. \A m \in Nodes \ {n} :
            HasPrimes(m)' /\ aux'[m].primes = aux'[n].primes
              => aux'[m].index = aux'[n].index
      BY <1>0, <2>2, <2>3, <2>4, <2>6
    <3>. QED
      BY <1>0, <3>1, <2>3 DEF PrimesInv, HasPrimes
  <2>8. \A l, m \in Nodes :
          /\ l # m
          /\ aux'[l] # NoAux /\ aux'[m] # NoAux
          /\ aux'[l].generation = aux'[m].generation
          => aux'[l].index # aux'[m].index
    BY <1>0, <2>1, <2>2, <2>3 DEF PrimesInv
  <2>. QED
    BY <1>0, <2>4, <2>6, <2>7, <2>8 DEF PrimesInv, InCache
<1>3. ASSUME NEW n \in Nodes, GeneratePrimes(n) PROVE PrimesInv'
  <2>1. aux[n] \in Auxes /\ aux[n] # NoAux
    BY <1>0, <1>3 DEF GeneratePrimes, TypeOK, NoAux, Auxes
  <2>2. /\ aux'[n].pc = "save" /\ aux'[n] # NoAux
        /\ aux'[n].generation = aux[n].generation
        /\ aux'[n].index = aux[n].index
        /\ aux'[n].primes = primes + 1
    BY <1>0, <1>3, <2>1 DEF GeneratePrimes, TypeOK, Auxes, NoAux
  <2>3. \A m \in Nodes \ {n} : aux'[m] = aux[m]
    BY <1>0, <1>3 DEF GeneratePrimes, TypeOK
  <2>4. cache' = cache /\ primes' = primes + 1 /\ primes \in Nat
    BY <1>0, <1>3 DEF GeneratePrimes, TypeOK
  <2>5. \A i \in Indices : \A p : InCache(i, p) => p \in 1..primes
    BY <1>0, FileItem DEF TypeOK, InCache
  <2>6. \A m \in Nodes \ {n} :
          HasPrimes(m)' => HasPrimes(m) /\ aux'[m].primes \in 1..primes
    BY <1>0, <2>3 DEF TypeOK, HasPrimes
  <2>7. ~ primes + 1 \in 1..primes
    BY <2>4
  <2>8. \A i, j \in Indices : \A p \in 1..primes' :
          InCache(i, p) /\ InCache(j, p) => i = j
    BY <1>0, <2>5 DEF PrimesInv
  <2>9. \A m \in Nodes, i \in Indices :
          HasPrimes(m)' /\ InCache(i, aux'[m].primes) => i = aux'[m].index
    BY <1>0, <2>2, <2>3, <2>5, <2>6, <2>7 DEF PrimesInv
  <2>10. \A l, m \in Nodes :
           HasPrimes(l)' /\ HasPrimes(m)' /\ aux'[l].primes = aux'[m].primes
             => aux'[l].index = aux'[m].index
    BY <1>0, <2>2, <2>3, <2>6, <2>7 DEF PrimesInv
  <2>11. \A l, m \in Nodes :
           /\ l # m
           /\ aux'[l] # NoAux /\ aux'[m] # NoAux
           /\ aux'[l].generation = aux'[m].generation
           => aux'[l].index # aux'[m].index
    BY <1>0, <2>1, <2>2, <2>3 DEF PrimesInv
  <2>. QED
    BY <2>4, <2>8, <2>9, <2>10, <2>11 DEF PrimesInv, InCache
<1>4. ASSUME NEW n \in Nodes, OpenPrimesFile(n) PROVE PrimesInv'
  <2>1. aux[n] \in Auxes /\ aux[n] # NoAux
    BY <1>0, <1>4 DEF OpenPrimesFile, TypeOK, NoAux, Auxes
  <2>2. \A m \in Nodes :
          /\ HasPrimes(m)' <=> HasPrimes(m)
          /\ aux'[m] # NoAux <=> aux[m] # NoAux
          /\ aux[m] # NoAux => /\ aux'[m].generation = aux[m].generation
                               /\ aux'[m].index = aux[m].index
                               /\ aux'[m].primes = aux[m].primes
    BY <1>0, <1>4, <2>1 DEF OpenPrimesFile, TypeOK, Auxes, NoAux, HasPrimes
  <2>3. \A m \in Nodes : HasPrimes(m) => aux[m] # NoAux
    BY DEF HasPrimes, NoAux
  <2>4. primes' = primes /\ \A i \in Indices : \A p : InCache(i, p)' => InCache(i, p)
    BY <1>0, <1>4, <2>1 DEF OpenPrimesFile, TypeOK, InCache, Torn, PrimesPath, Auxes
  <2>5. \A i, j \in Indices : \A p \in 1..primes' :
          InCache(i, p)' /\ InCache(j, p)' => i = j
    BY <1>0, <2>4 DEF PrimesInv
  <2>6. \A m \in Nodes, i \in Indices :
          HasPrimes(m)' /\ InCache(i, aux[m].primes)' => i = aux[m].index
    BY <1>0, <2>2, <2>4 DEF PrimesInv
  <2>. QED
    BY <1>0, <2>2, <2>3, <2>4, <2>5 DEF PrimesInv, InCache
<1>5. ASSUME NEW n \in Nodes, NEW fails \in BOOLEAN, WritePrimesFile(n, fails)
      PROVE  PrimesInv'
  <2>1. aux[n] \in Auxes /\ aux[n] # NoAux /\ HasPrimes(n) /\ aux[n].index \in Indices
    BY <1>0, <1>5 DEF WritePrimesFile, TypeOK, NoAux, Auxes, HasPrimes
  <2>2. \A m \in Nodes :
          /\ HasPrimes(m)' <=> HasPrimes(m)
          /\ aux'[m] # NoAux <=> aux[m] # NoAux
          /\ aux[m] # NoAux => /\ aux'[m].generation = aux[m].generation
                               /\ aux'[m].index = aux[m].index
                               /\ aux'[m].primes = aux[m].primes
    BY <1>0, <1>5, <2>1 DEF WritePrimesFile, TypeOK, Auxes, NoAux, HasPrimes
  <2>3. \A m \in Nodes : HasPrimes(m) => aux[m] # NoAux
    BY DEF HasPrimes, NoAux
  <2>4. /\ primes' = primes
        /\ \A i \in Indices : \A p :
             InCache(i, p)' => \/ InCache(i, p)
                               \/ i = aux[n].index /\ p = aux[n].primes
    BY <1>0, <1>5, <2>1 DEF WritePrimesFile, TypeOK, InCache, Whole, PrimesPath
  <2>5. \A i, j \in Indices : \A p \in 1..primes' :
          InCache(i, p)' /\ InCache(j, p)' => i = j
    BY <1>0, <2>1, <2>4 DEF PrimesInv
  <2>6. \A m \in Nodes, i \in Indices :
          HasPrimes(m) /\ (\E p : p = aux[m].primes /\ InCache(i, p)') => i = aux[m].index
    BY <1>0, <2>1, <2>4 DEF PrimesInv
  <2>. QED
    BY <1>0, <2>2, <2>3, <2>4, <2>5, <2>6 DEF PrimesInv, InCache
<1>6. ASSUME NEW n \in Nodes, FinishAux(n) \/ Stop(n) PROVE PrimesInv'
  <2>1. /\ aux'[n] = NoAux
        /\ \A m \in Nodes \ {n} : aux'[m] = aux[m]
        /\ cache' = cache /\ primes' = primes
    BY <1>0, <1>6 DEF FinishAux, Stop, TypeOK
  <2>. QED
    BY <1>0, <2>1 DEF PrimesInv, HasPrimes, InCache, NoAux
<1>7. CASE UNCHANGED <<aux, cache, primes>>
  BY <1>0, <1>7 DEF PrimesInv, HasPrimes, InCache
<1>. QED
  BY <1>1, <1>2, <1>3, <1>4, <1>5, <1>6, <1>7
  DEF Next, vars, StartStep, AuxStep, Start, LoadKey, GoUp, RefuseStart,
      GenerateKey, OpenKeyFile, WriteKeyFile

----------------------------------------------------------------------------
(* The theorems                                                             *)

\* IInv holds in every state.
LEMMA Invariance == Spec => []IInv
<1>1. IInv /\ [Next]_vars => IInv'
  BY TypeStep, KeyStep, PrimesStep DEF IInv
<1>. QED
  BY InitIInv, <1>1, PTL DEF Spec

\* Nodes keep to their types, whatever files they find and wherever they stop.
THEOREM TypeCorrect == Spec => []TypeOK
BY Invariance, PTL DEF IInv

\* Nobody has seen a node under an identity that is not on its disk.
THEOREM IdentityKept == Spec => []SeenIdentityOnDisk
<1>1. IInv => SeenIdentityOnDisk
  BY DEF IInv, KeyInv, SeenIdentityOnDisk
<1>. QED
  BY <1>1, Invariance, PTL

\* A node that could read its key file had one identity in all its lives.
THEOREM OneIdentity == Spec => []SamePeerIdAgain
<1>1. ASSUME IInv, NEW n \in Nodes, n \notin unread
      PROVE  Cardinality(seen[n]) <= 1
  <2>1. CASE seen[n] = {}
    BY <2>1, FS_EmptySet
  <2>2. CASE seen[n] # {}
    <3>1. PICK k \in 1..MaxKeys : seen[n] = {k}
      BY <1>1, <2>2 DEF IInv, KeyInv
    <3>2. Cardinality({k}) = 1
      BY FS_Singleton, Zenon
    <3>. QED
      BY <3>1, <3>2
  <2>. QED
    BY <2>1, <2>2
<1>2. IInv => SamePeerIdAgain
  BY <1>1 DEF SamePeerIdAgain
<1>. QED
  BY <1>2, Invariance, PTL

\* A torn key file stops only nodes nobody has seen.
THEOREM StartsAgain == Spec => []RefusesOnlyUnseen
<1>1. IInv => RefusesOnlyUnseen
  BY DEF IInv, KeyInv, RefusesOnlyUnseen
<1>. QED
  BY <1>1, Invariance, PTL

\* Parties of one aux generation never use the same primes.
THEOREM PrimesApart == Spec => []OwnPrimes
<1>1. IInv => OwnPrimes
  BY DEF IInv, PrimesInv, HasPrimes, NoAux, OwnPrimes
<1>. QED
  BY <1>1, Invariance, PTL
=============================================================================
