------------------------------ MODULE KeyPool ------------------------------
(***************************************************************************)
(* The key pool of the wallet (src/src/wallet.cpp, walletdb.h): keys made  *)
(* in advance, numbered, with a record each in wallet.dat.  Threads        *)
(* reserve a key (CReserveKey: a payment, a miner, getwork), and keep it   *)
(* or return it later; the wallet is encrypted, locked and unlocked, and   *)
(* the process stops in between.                                           *)
(*                                                                         *)
(* Abstractions.  A key is the number of its generation.  Every operation  *)
(* on the pool is one step, because it holds cs_wallet.  The key store has *)
(* every key that was generated, and what has been written to wallet.dat   *)
(* is there after a restart.                                               *)
(***************************************************************************)
EXTENDS Integers, FiniteSets, Functions

CONSTANTS
  Holders,      \* CReserveKey objects
  TargetSize,   \* -keypool
  MaxKeys       \* bound: keys that are generated

\* The first start fills the pool within the bound.
ASSUME KeyPoolAssumption == TargetSize \in Nat /\ MaxKeys \in Nat /\ TargetSize <= MaxKeys

VARIABLES
  setKeyPool,   \* indexes of the keys in the pool
  pool,         \* the "pool" records of wallet.dat: index -> key
  holder,       \* nIndex and vchPubKey of each CReserveKey
  fCrypted,     \* the wallet is encrypted
  locked,       \* IsLocked()
  nKeys,        \* keys generated so far
  used,         \* keys that were kept: in a transaction, a block, an address
  reused,       \* those that were kept more than once
  overwritten   \* a record has been overwritten whose index was reserved

vars == <<setKeyPool, pool, holder, fCrypted, locked, nKeys, used, reused, overwritten>>

DefaultKey == 0   \* vchDefaultKey
NoKey == -1       \* an invalid CPubKey

Unreserved == [nIndex |-> -1, key |-> NoKey]
Reserved == {holder[h].nIndex : h \in Holders} \ {-1}
Smallest(S) == CHOOSE i \in S : \A j \in S : i <= j
Largest(S) == CHOOSE i \in S : \A j \in S : j <= i

\* WritePool for a run of indexes, with a new key each; ErasePool.
WritePool(p, I) ==
  [i \in DOMAIN p \cup I |-> IF i \in I THEN nKeys + 1 + i - Smallest(I) ELSE p[i]]
ErasePool(p, I) == Restrict(p, DOMAIN p \ I)

Generate(I) ==
  /\ nKeys' = nKeys + Cardinality(I)
  /\ nKeys' <= MaxKeys
  /\ overwritten' = (overwritten \/ I \cap Reserved # {})

\* A new wallet after its first start: its first key has become the default key.
Init ==
  /\ setKeyPool = 2 .. TargetSize + 1
  /\ pool = [i \in setKeyPool |-> i - 1]
  /\ holder = [h \in Holders |-> Unreserved]
  /\ fCrypted = FALSE /\ locked = FALSE
  /\ nKeys = TargetSize
  /\ used = {} /\ reused = {}
  /\ overwritten = FALSE

-----------------------------------------------------------------------------
\* The indexes TopUpKeyPool adds: from the largest one in the pool on, or from 1.
NewIndexes ==
  LET first == IF setKeyPool = {} THEN 1 ELSE Largest(setKeyPool) + 1
  IN  IF locked THEN {} ELSE first .. first + TargetSize - Cardinality(setKeyPool)

ToppedUp == setKeyPool \cup NewIndexes

\* keypoolrefill, getnewaddress, the thread that walletpassphrase starts.
TopUpKeyPool ==
  /\ NewIndexes # {}
  /\ setKeyPool' = ToppedUp
  /\ pool' = WritePool(pool, NewIndexes)
  /\ Generate(NewIndexes)
  /\ UNCHANGED <<holder, fCrypted, locked, used, reused>>

\* Mutant: the index stays in the pool.
TakeKeepsIndex(S) == S

\* "Get the oldest key"
Take(S) == S \ {Smallest(S)}

\* GetReservedKey: the pool is topped up unless the wallet is locked.
GetReservedKey(h) ==
  LET topped == WritePool(pool, NewIndexes)
      i == Smallest(ToppedUp)
  IN  /\ holder[h].nIndex = -1
      /\ ToppedUp # {} /\ i \in DOMAIN topped
      /\ setKeyPool' = Take(ToppedUp)
      /\ pool' = topped
      /\ Generate(NewIndexes)
      /\ holder' = [holder EXCEPT ![h] = [nIndex |-> i, key |-> topped[i]]]
      /\ UNCHANGED <<fCrypted, locked, used, reused>>

\* The record cannot be read: the exception unwinds to ~CReserveKey, which returns
\* the index.  (A static CReserveKey stops the process when it is used next.)
GetReservedKeyThrows(h) ==
  /\ holder[h].nIndex = -1
  /\ ToppedUp # {}
  /\ Smallest(ToppedUp) \notin DOMAIN WritePool(pool, NewIndexes)
  /\ setKeyPool' = ToppedUp
  /\ pool' = WritePool(pool, NewIndexes)
  /\ Generate(NewIndexes)
  /\ holder' = [holder EXCEPT ![h] = Unreserved]
  /\ UNCHANGED <<fCrypted, locked, used, reused>>

\* "Using default key instead of a new key, top up your keypool!"
GetDefaultKey(h) ==
  /\ holder[h] = Unreserved
  /\ ToppedUp = {}
  /\ holder' = [holder EXCEPT ![h].key = DefaultKey]
  /\ UNCHANGED <<setKeyPool, pool, fCrypted, locked, nKeys, used, reused, overwritten>>

\* A key is used for a payment, a block or an address.
Use(k) ==
  /\ used' = used \cup ({k} \ {DefaultKey})
  /\ reused' = reused \cup ({k} \cap used)

\* Mutant: the record stays in wallet.dat.
KeepKeyNotErased(h) ==
  /\ holder[h].key # NoKey
  /\ holder' = [holder EXCEPT ![h] = Unreserved]
  /\ Use(holder[h].key)
  /\ UNCHANGED <<pool, setKeyPool, fCrypted, locked, nKeys, overwritten>>

\* CReserveKey::KeepKey, in CommitTransaction and CheckWork.
KeepKey(h) ==
  /\ holder[h].key # NoKey
  /\ pool' = ErasePool(pool, {holder[h].nIndex})
  /\ holder' = [holder EXCEPT ![h] = Unreserved]
  /\ Use(holder[h].key)
  /\ UNCHANGED <<setKeyPool, fCrypted, locked, nKeys, overwritten>>

\* Mutant: nIndex is not compared with -1.
ReturnKeyUnchecked(h) ==
  /\ holder[h].key # NoKey
  /\ setKeyPool' = setKeyPool \cup {holder[h].nIndex}
  /\ holder' = [holder EXCEPT ![h] = Unreserved]
  /\ UNCHANGED <<pool, fCrypted, locked, nKeys, used, reused, overwritten>>

\* CReserveKey::ReturnKey, by CreateTransaction or by the destructor, and the second
\* half of GetOldestKeyPoolTime.
ReturnKey(h) ==
  /\ holder[h].key # NoKey
  /\ setKeyPool' = setKeyPool \cup ({holder[h].nIndex} \ {-1})
  /\ holder' = [holder EXCEPT ![h] = Unreserved]
  /\ UNCHANGED <<pool, fCrypted, locked, nKeys, used, reused, overwritten>>

\* GetKeyFromPool: the key is reserved and kept at once.  The index is gone even if
\* its record cannot be read.
GetKeyFromPool ==
  LET topped == WritePool(pool, NewIndexes)
      i == Smallest(ToppedUp)
  IN  /\ ToppedUp # {}
      /\ setKeyPool' = Take(ToppedUp)
      /\ Generate(NewIndexes)
      /\ IF i \in DOMAIN topped
         THEN pool' = ErasePool(topped, {i}) /\ Use(topped[i])
         ELSE pool' = topped /\ UNCHANGED <<used, reused>>
      /\ UNCHANGED <<holder, fCrypted, locked>>

-----------------------------------------------------------------------------
Lock ==
  /\ fCrypted /\ ~locked
  /\ locked' = TRUE
  /\ UNCHANGED <<setKeyPool, pool, holder, fCrypted, nKeys, used, reused, overwritten>>

Unlock ==
  /\ locked
  /\ locked' = FALSE
  /\ UNCHANGED <<setKeyPool, pool, holder, fCrypted, nKeys, used, reused, overwritten>>

\* "Mark old keypool keys as used, and generate all new keys": the records of the
\* keys in the pool are erased and the numbers start at 1 again.
NewKeyPool ==
  LET I == 1 .. TargetSize
  IN  /\ pool' = WritePool(ErasePool(pool, setKeyPool), I)
      /\ setKeyPool' = I
      /\ Generate(I)

\* EncryptWallet leaves the wallet locked.
EncryptWallet ==
  /\ ~fCrypted
  /\ fCrypted' = TRUE /\ locked' = TRUE
  /\ NewKeyPool
  /\ UNCHANGED <<holder, used, reused>>

\* The process ends, at any time, and the wallet is loaded again: every record is in
\* the pool, also those of keys that were reserved.
Restart ==
  /\ setKeyPool' = DOMAIN pool
  /\ holder' = [h \in Holders |-> Unreserved]
  /\ locked' = fCrypted
  /\ UNCHANGED <<pool, fCrypted, nKeys, used, reused, overwritten>>

Next ==
  \/ TopUpKeyPool \/ GetKeyFromPool
  \/ \E h \in Holders :
       \/ GetReservedKey(h) \/ GetReservedKeyThrows(h) \/ GetDefaultKey(h)
       \/ KeepKey(h) \/ ReturnKey(h)
  \/ Lock \/ Unlock \/ EncryptWallet
  \/ Restart

Spec == Init /\ [][Next]_vars

-----------------------------------------------------------------------------
KeyPoolTypeOK ==
  /\ setKeyPool \subseteq 1 .. MaxKeys + 1
  /\ DOMAIN pool \subseteq 1 .. MaxKeys + 1 /\ \A i \in DOMAIN pool : pool[i] \in 1 .. nKeys
  /\ holder \in [Holders -> [nIndex : {-1} \cup 1 .. MaxKeys + 1, key : {NoKey} \cup 0 .. nKeys]]
  /\ fCrypted \in BOOLEAN /\ locked \in BOOLEAN /\ (locked => fCrypted)
  /\ nKeys \in 0 .. MaxKeys
  /\ used \subseteq 1 .. nKeys /\ reused \subseteq used
  /\ overwritten \in BOOLEAN

(***************************************************************************)
(* As long as no reserved record has been overwritten: the records in      *)
(* wallet.dat are exactly the indexes in the pool and the reserved ones,   *)
(* no index is in the pool and reserved, or reserved twice, and a          *)
(* CReserveKey has the key of its record.  ReserveKeyFromKeyPool throws    *)
(* "read failed" for an index without a record.                            *)
(***************************************************************************)
PoolExact ==
  ~overwritten =>
    /\ DOMAIN pool = setKeyPool \cup Reserved
    /\ setKeyPool \cap Reserved = {}
    /\ \A h \in Holders : holder[h].nIndex # -1 => holder[h].key = pool[holder[h].nIndex]
    /\ \A g, h \in Holders : holder[g].nIndex = holder[h].nIndex => g = h \/ holder[g].nIndex = -1

(***************************************************************************)
(* And no key is given out again after it has been used, whatever is       *)
(* reserved, returned, kept and lost in a restart: not by a thread, not    *)
(* from wallet.dat.                                                        *)
(***************************************************************************)
KeyUsedOnce ==
  ~overwritten =>
    /\ reused = {}
    /\ \A i \in DOMAIN pool : pool[i] \notin used
    /\ \A i, j \in DOMAIN pool : pool[i] = pool[j] => i = j

(***************************************************************************)
(* "Take key pair from key pool so it won't be used again"                 *)
(* (wallet.cpp:1669): no key of the pool is ever used twice.               *)
(***************************************************************************)
NeverUsedAgain == reused = {}
=============================================================================
