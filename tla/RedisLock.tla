------------------------------ MODULE RedisLock ------------------------------
(***************************************************************************)
(* The distributed lock of cache/l2.go as its callers use it: SET NX with  *)
(* a TTL and a random token, the token remembered in a map of the process  *)
(* (lockTokens, one entry per key), a compare-and-delete to unlock.        *)
(*                                                                         *)
(* The random token of a Lock call is named by the client that made the    *)
(* call; a client locks once.  Each operator is one Redis command together *)
(* with the access to the process's own map next to it.  They constrain    *)
(* redisLock and lockTokens only: the modules that extend this one         *)
(* conjoin them with the step of the client that makes the call.           *)
(***************************************************************************)
CONSTANTS Clients,   \* callers of Lock: requests, or one elector per pod
          Keys,      \* lock keys
          KeyOf,     \* the key each client locks
          Pods,      \* application processes
          PodOf,     \* the process a client runs in
          NoClient   \* "nobody": a key that is not set, a map without entry

ASSUME LockAssumption ==
    /\ KeyOf \in [Clients -> Keys]
    /\ PodOf \in [Clients -> Pods]
    /\ NoClient \notin Clients

VARIABLES redisLock,   \* the value of each lock key in Redis
          lockTokens   \* lockTokens of each process

Tokens == Clients \cup {NoClient}

LockTypeOK ==
    /\ redisLock \in [Keys -> Tokens]
    /\ lockTokens \in [Pods -> [Keys -> Tokens]]

LockInit ==
    /\ redisLock = [k \in Keys |-> NoClient]
    /\ lockTokens = [p \in Pods |-> [k \in Keys |-> NoClient]]

\* Slip: SET without NX.
LockAlwaysFree(c) == TRUE

\* SET NX succeeds.
LockFree(c) == redisLock[KeyOf[c]] = NoClient

SetLock(c) == redisLock' = [redisLock EXCEPT ![KeyOf[c]] = c]

\* Lock returns true: the key is set and the token stored, over whatever the
\* map held for this key.
Lock(c) ==
    /\ LockFree(c)
    /\ SetLock(c)
    /\ lockTokens' = [lockTokens EXCEPT ![PodOf[c]][KeyOf[c]] = c]

\* The key is set but the reply is lost: Lock returns an error and stores
\* no token.
LockReplyLost(c) ==
    /\ LockFree(c)
    /\ SetLock(c)
    /\ UNCHANGED lockTokens

\* popLockToken alone: what is left of Unlock when Redis does not answer.
PopToken(c) ==
    lockTokens' = [lockTokens EXCEPT ![PodOf[c]][KeyOf[c]] = NoClient]

\* Unlock: pop the token stored for the key, whoever stored it, and delete
\* the key if it still holds that token.
Unlock(c) ==
    LET k == KeyOf[c]
        token == lockTokens[PodOf[c]][k]
    IN  /\ PopToken(c)
        /\ redisLock' = IF token # NoClient /\ redisLock[k] = token
                        THEN [redisLock EXCEPT ![k] = NoClient]
                        ELSE redisLock

\* The TTL of a key runs out.
LockExpires(k) ==
    /\ redisLock[k] # NoClient
    /\ redisLock' = [redisLock EXCEPT ![k] = NoClient]
    /\ UNCHANGED lockTokens

\* A process dies: its map is gone, its keys stay in Redis until their TTL.
LoseTokens(p) ==
    /\ lockTokens' = [lockTokens EXCEPT ![p] = [k \in Keys |-> NoClient]]
    /\ UNCHANGED redisLock
=============================================================================
