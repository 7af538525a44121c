----------------------------- MODULE NodeFiles ------------------------------
(***************************************************************************)
(* What nodes keep in files, and what they find after they were stopped:   *)
(* the identity key (main.rs), of which every node has its own, and, in    *)
(* development builds, a cache of Paillier primes per party index          *)
(* (mpc/aux_party.rs), which nodes started in one directory share.         *)
(*                                                                         *)
(* fs::write is two steps: the file is created or truncated, then its      *)
(* bytes are written.  A process may be stopped between any two steps; the *)
(* files stay.                                                             *)
(***************************************************************************)
EXTENDS Naturals, FiniteSets

CONSTANTS
  Nodes,
  Indices,      \* party indices
  Generations,  \* aux generations, each with parties of its own
  MaxKeys,      \* bound: keys a node generates
  MaxPrimes,    \* bound: sets of primes generated
  ReadErrors    \* may fs::read fail on a file that is there?

ASSUME FilesAssumption == /\ MaxKeys \in Nat
                          /\ MaxPrimes \in Nat
                          /\ ReadErrors \in BOOLEAN

VARIABLES
  pc,        \* pc[n]: how far the start of n is, or "up"
  id,        \* id[n]: the key in memory; 0 is none
  keyFile,   \* keyFile[n]: the identity key file
  aux,       \* aux[n]: n's part in an aux generation: party index, primes
  cache,     \* cache[i]: the file of primes of party i
  keys,      \* keys[n]: keys n has generated
  primes,    \* sets of primes generated
  seen,      \* history: the keys under which n was on the network
  refused,   \* history: nodes that refused to start
  unread     \* history: nodes that could not read a key file that was there

vars == <<pc, id, keyFile, aux, cache, keys, primes, seen, refused, unread>>

----------------------------------------------------------------------------
(* Files.  A file holds one thing, or, torn, a part of it that does not     *)
(* decode.                                                                  *)

NoFile   == [what |-> "nothing"]
Torn     == [what |-> "part"]
Whole(x) == [what |-> "whole", item |-> x]
Files(S) == {NoFile, Torn} \cup {Whole(x) : x \in S}

NoAux == [pc |-> "idle"]
Auxes == [pc : {"load", "save", "write", "use"}, generation : Generations,
          index : Indices, primes : 0..MaxPrimes]

----------------------------------------------------------------------------
(* Starting: load the identity key, or generate and save it                 *)

Start(n) == /\ pc[n] = "down"
            /\ pc' = [pc EXCEPT ![n] = "load"]
            /\ UNCHANGED <<id, keyFile, aux, cache, keys, primes, seen, refused, unread>>

\* The network is set up with the key in memory.
GoUp(n, k) == /\ pc' = [pc EXCEPT ![n] = "up"]
              /\ id' = [id EXCEPT ![n] = k]
              /\ seen' = [seen EXCEPT ![n] = @ \cup {k}]

\* Fault: the key is saved again once it is loaded.
LoadKeyAndSave(n) ==
  /\ pc[n] = "load"
  /\ keyFile[n].what = "whole"
  /\ pc' = [pc EXCEPT ![n] = "save"]
  /\ id' = [id EXCEPT ![n] = keyFile[n].item]
  /\ UNCHANGED <<keyFile, aux, cache, keys, primes, seen, refused, unread>>
\* The file is read and decodes.
LoadKey(n) ==
  /\ pc[n] = "load"
  /\ keyFile[n].what = "whole"
  /\ GoUp(n, keyFile[n].item)
  /\ UNCHANGED <<keyFile, aux, cache, keys, primes, refused, unread>>

\* The file is read and does not decode: main returns an error.
RefuseStart(n) ==
  /\ pc[n] = "load"
  /\ keyFile[n].what = "part"
  /\ pc' = [pc EXCEPT ![n] = "down"]
  /\ refused' = refused \cup {n}
  /\ UNCHANGED <<id, keyFile, aux, cache, keys, primes, seen, unread>>

\* Fault: the node does not wait for the key to be saved.
GenerateKeyAndGoUp(n) ==
  /\ pc[n] = "load"
  /\ keyFile[n] = NoFile \/ ReadErrors
  /\ keys[n] < MaxKeys
  /\ keys' = [keys EXCEPT ![n] = @ + 1]
  /\ unread' = IF keyFile[n] = NoFile THEN unread ELSE unread \cup {n}
  /\ GoUp(n, keys[n] + 1)
  /\ UNCHANGED <<keyFile, aux, cache, primes, refused>>
\* Any error of the read, not only that there is no file, makes a new key.
GenerateKey(n) ==
  /\ pc[n] = "load"
  /\ keyFile[n] = NoFile \/ ReadErrors
  /\ keys[n] < MaxKeys
  /\ keys' = [keys EXCEPT ![n] = @ + 1]
  /\ unread' = IF keyFile[n] = NoFile THEN unread ELSE unread \cup {n}
  /\ id' = [id EXCEPT ![n] = keys[n] + 1]
  /\ pc' = [pc EXCEPT ![n] = "save"]
  /\ UNCHANGED <<keyFile, aux, cache, primes, seen, refused>>

OpenKeyFile(n) ==
  /\ pc[n] = "save"
  /\ keyFile' = [keyFile EXCEPT ![n] = Torn]
  /\ pc' = [pc EXCEPT ![n] = "write"]
  /\ UNCHANGED <<id, aux, cache, keys, primes, seen, refused, unread>>

WriteKeyFile(n) ==
  /\ pc[n] = "write"
  /\ keyFile' = [keyFile EXCEPT ![n] = Whole(id[n])]
  /\ GoUp(n, id[n])
  /\ UNCHANGED <<aux, cache, keys, primes, refused, unread>>

----------------------------------------------------------------------------
(* The primes of an aux generation                                          *)

\* n takes part in g as party i.  The parties of one aux generation have
\* different indices.
StartAux(n, g, i) ==
  /\ pc[n] = "up"
  /\ aux[n] = NoAux
  /\ \A m \in Nodes :
       aux[m] # NoAux /\ aux[m].generation = g => aux[m].index # i
  /\ aux' = [aux EXCEPT ![n] = [pc |-> "load", generation |-> g,
                               index |-> i, primes |-> 0]]
  /\ UNCHANGED <<pc, id, keyFile, cache, keys, primes, seen, refused, unread>>

\* Fault: one file for all parties.
PrimesPathShared(i) == CHOOSE j \in Indices : TRUE
PrimesPath(i) == i

\* Fault: what was read is not decoded.
LoadPrimesUndecoded(n) ==
  /\ aux[n].pc = "load"
  /\ cache[PrimesPath(aux[n].index)] # NoFile
  /\ aux' = [aux EXCEPT ![n].pc = "use",
               ![n].primes = IF cache[PrimesPath(aux[n].index)] = Torn
                               THEN 0 ELSE cache[PrimesPath(aux[n].index)].item]
  /\ UNCHANGED <<pc, id, keyFile, cache, keys, primes, seen, refused, unread>>
LoadPrimes(n) ==
  /\ aux[n].pc = "load"
  /\ cache[PrimesPath(aux[n].index)].what = "whole"
  /\ aux' = [aux EXCEPT ![n].pc = "use",
                        ![n].primes = cache[PrimesPath(aux[n].index)].item]
  /\ UNCHANGED <<pc, id, keyFile, cache, keys, primes, seen, refused, unread>>

\* No file, or one that cannot be read or does not decode.
GeneratePrimes(n) ==
  /\ aux[n].pc = "load"
  /\ ReadErrors \/ cache[PrimesPath(aux[n].index)].what # "whole"
  /\ primes < MaxPrimes
  /\ primes' = primes + 1
  /\ aux' = [aux EXCEPT ![n].pc = "save", ![n].primes = primes + 1]
  /\ UNCHANGED <<pc, id, keyFile, cache, keys, seen, refused, unread>>

OpenPrimesFile(n) ==
  /\ aux[n].pc = "save"
  /\ cache' = [cache EXCEPT ![PrimesPath(aux[n].index)] = Torn]
  /\ aux' = [aux EXCEPT ![n].pc = "write"]
  /\ UNCHANGED <<pc, id, keyFile, keys, primes, seen, refused, unread>>

\* A write that fails is logged, and the primes are used nonetheless.
WritePrimesFile(n, fails) ==
  /\ aux[n].pc = "write"
  /\ cache' = IF fails THEN cache
                       ELSE [cache EXCEPT ![PrimesPath(aux[n].index)] =
                                            Whole(aux[n].primes)]
  /\ aux' = [aux EXCEPT ![n].pc = "use"]
  /\ UNCHANGED <<pc, id, keyFile, keys, primes, seen, refused, unread>>

FinishAux(n) ==
  /\ aux[n].pc = "use"
  /\ aux' = [aux EXCEPT ![n] = NoAux]
  /\ UNCHANGED <<pc, id, keyFile, cache, keys, primes, seen, refused, unread>>

----------------------------------------------------------------------------
\* The process is stopped or dies, wherever it is, or main returns an error of
\* the file system.
Stop(n) ==
  /\ pc[n] # "down"
  /\ pc' = [pc EXCEPT ![n] = "down"]
  /\ id' = [id EXCEPT ![n] = 0]
  /\ aux' = [aux EXCEPT ![n] = NoAux]
  /\ UNCHANGED <<keyFile, cache, keys, primes, seen, refused, unread>>

Init == /\ pc      = [n \in Nodes |-> "down"]
        /\ id      = [n \in Nodes |-> 0]
        /\ keyFile = [n \in Nodes |-> NoFile]
        /\ aux     = [n \in Nodes |-> NoAux]
        /\ cache   = [i \in Indices |-> NoFile]
        /\ keys    = [n \in Nodes |-> 0]
        /\ primes  = 0
        /\ seen    = [n \in Nodes |-> {}]
        /\ refused = {}
        /\ unread  = {}

StartStep(n) == \/ LoadKey(n)
                \/ RefuseStart(n)
                \/ GenerateKey(n)
                \/ OpenKeyFile(n)
                \/ WriteKeyFile(n)
AuxStep(n) == \/ LoadPrimes(n)
              \/ GeneratePrimes(n)
              \/ OpenPrimesFile(n)
              \/ \E fails \in BOOLEAN : WritePrimesFile(n, fails)

Next == \E n \in Nodes : \/ Start(n)
                         \/ StartStep(n)
                         \/ \E g \in Generations, i \in Indices : StartAux(n, g, i)
                         \/ AuxStep(n)
                         \/ FinishAux(n)
                         \/ Stop(n)

Spec == Init /\ [][Next]_vars

----------------------------------------------------------------------------
(* Properties                                                              *)

\* Every variable has its type; the primes a run uses are a set that was
\* generated.
TypeOK ==
  /\ pc \in [Nodes -> {"down", "load", "save", "write", "up"}]
  /\ id \in [Nodes -> 0..MaxKeys]
  /\ keyFile \in [Nodes -> Files(1..MaxKeys)]
  /\ aux \in [Nodes -> Auxes \cup {NoAux}]
  /\ \A n \in Nodes :
       aux[n].pc \in {"save", "write", "use"} => aux[n].primes \in 1..primes
  /\ cache \in [Indices -> Files(1..primes)]
  /\ keys \in [Nodes -> 0..MaxKeys]
  /\ primes \in 0..MaxPrimes
  /\ seen \in [Nodes -> SUBSET (1..MaxKeys)]
  /\ refused \subseteq Nodes
  /\ unread \subseteq Nodes

\* A node that is on the network has its identity on disk: whenever it is
\* stopped from then on, the peer id that others know is not lost.
SeenIdentityOnDisk == \A n \in Nodes : pc[n] = "up" => keyFile[n] = Whole(id[n])

\* "Subsequent runs will reuse the same peer ID", wherever earlier runs were
\* stopped, unless a key file that is there could not be read.
SamePeerIdAgain ==
  \A n \in Nodes : n \in unread \/ Cardinality(seen[n]) <= 1

\* A node that has been on the network starts again: the torn key file that
\* makes a node refuse to start is left only by the start that made the key,
\* before anybody saw it (or after a key file could not be read).
RefusesOnlyUnseen ==
  \A n \in Nodes : n \in refused /\ seen[n] # {} => n \in unread

\* Parties of one aux generation use different primes, whatever other
\* generations on nodes of the same directory have left in the cache.
OwnPrimes ==
  \A m, n \in Nodes :
    /\ m # n
    /\ aux[m].pc = "use" /\ aux[n].pc = "use"
    /\ aux[m].generation = aux[n].generation
    => aux[m].primes # aux[n].primes
=============================================================================
