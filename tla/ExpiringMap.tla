----------------------------- MODULE ExpiringMap -----------------------------
(***************************************************************************)
(* What the dictionary promises to those that call it: a map from keys to  *)
(* values, or lists of values, that expire.  Memory, tree, queue and the   *)
(* order of eviction are not seen; that memory may run out is, as a choice *)
(* between the outcomes.                                                   *)
(*                                                                         *)
(* The map loses an entry that the caller did not remove when its time has *)
(* come, and for a call that says so: flush_all, or one that evicts, which *)
(* takes several steps.                                                    *)
(***************************************************************************)
EXTENDS Integers, Sequences, SequencesExt

CONSTANTS
    Key, Value, Ttl, By, Time,   \* as in Shdict
    Late,
    None

VARIABLES
    map,      \* key to [val, items, expires]; a list has val = List
    making,   \* the call that makes room for its value, or None
    now,      \* the clock
    ret       \* what the last call returned

vars == <<map, making, now, ret>>

Nil == [type |-> "nil", len |-> 0, data |-> 0]
List == [type |-> "list", len |-> 0, data |-> 0]
Number(n) == [type |-> "number", len |-> 8, data |-> n]
Expires(t, ttl) == IF ttl > 0 THEN t + ttl ELSE 0

Without(m, keys) == [k \in DOMAIN m \ keys |-> m[k]]
With(m, k, val, items, x) ==
    [j \in DOMAIN m \cup {k} |->
        IF j = k THEN [val |-> val, items |-> items, expires |-> x] ELSE m[j]]

Due == {k \in DOMAIN map : map[k].expires # 0 /\ map[k].expires <= now}

\* The map when the call begins, without some of the entries that are due.
Aged == {Without(map, gone) : gone \in SUBSET Due}

Live(m, k, t) == k \in DOMAIN m /\ (m[k].expires = 0 \/ m[k].expires >= t)

Answer(op, k, rc, val, num, forcible) ==
    ret' = [op |-> op, key |-> k, rc |-> rc, val |-> val, num |-> num,
            forcible |-> forcible]

Refuse(op, k, rc) == Answer(op, k, rc, Nil, 0, FALSE)

-----------------------------------------------------------------------------

\* The value of the call c is stored in m; or there is no memory, and the call
\* fails or makes room.
Write(c, m, t) ==
    \/ /\ Answer(c.op, c.key, "OK", c.val, 0, c.forced)
       /\ map' = With(m, c.key, c.val, <<>>,
                      Expires(IF c.op = "incr" THEN c.base ELSE t, c.ttl))
       /\ making' = None
    \/ /\ c.op \in {"safe_set", "safe_add"}
       /\ Refuse(c.op, c.key, "NOMEM")
       /\ map' = Without(m, {c.key}) /\ making' = None
    \/ /\ c.op \notin {"safe_set", "safe_add"}
       /\ map' = Without(m, {c.key}) /\ making' = c
       /\ UNCHANGED ret

\* Other entries go, or the call gives up.
MakeRoom(t) ==
    \/ \E gone \in (SUBSET DOMAIN map) \ {{}} :
          Write([making EXCEPT !.forced = TRUE], Without(map, gone), t)
    \/ /\ Answer(making.op, making.key, "NOMEM", Nil, 0, making.forced)
       /\ map' = map /\ making' = None

Store(op, k, v, ttl, t) ==
    \E m \in Aged :
       \/ /\ v = Nil /\ op \notin {"set", "safe_set"}
          /\ Refuse(op, k, "ERROR")
          /\ map' = map /\ making' = None
       \/ /\ \/ op = "replace" /\ ~Live(m, k, t)
             \/ op \in {"add", "safe_add"} /\ Live(m, k, t)
          /\ Refuse(op, k, "DECLINED")
          /\ map' = m /\ making' = None
       \/ /\ v = Nil /\ op \in {"set", "safe_set"}
          /\ Answer(op, k, "OK", Nil, 0, FALSE)
          /\ map' = Without(m, {k}) /\ making' = None
       \/ /\ v # Nil
          /\ op = "replace" => Live(m, k, t)
          /\ op \in {"add", "safe_add"} => ~Live(m, k, t)
          /\ Write([op |-> op, key |-> k, val |-> v, ttl |-> ttl, base |-> 0,
                    forced |-> FALSE], m, t)

Incr(k, by, init, ttl, t0, t) ==
    \E m \in Aged :
       \/ /\ Live(m, k, t) => m[k].val.type # "number"
          /\ Live(m, k, t) \/ init = None
          /\ Refuse("incr", k, "ERROR")
          /\ map' = m /\ making' = None
       \/ /\ Live(m, k, t) /\ m[k].val.type = "number"
          /\ LET sum == Number(m[k].val.data + by)
             IN /\ Answer("incr", k, "OK", sum, 0, FALSE)
                /\ map' = With(m, k, sum, <<>>, m[k].expires) /\ making' = None
       \/ /\ ~Live(m, k, t) /\ init # None
          /\ Write([op |-> "incr", key |-> k, val |-> Number(by + init),
                    ttl |-> ttl, base |-> t0, forced |-> FALSE], m, t)

\* An expired value is given only with the mark that it is stale.
Get(k, t) ==
    /\ map' = map /\ making' = None
    /\ \/ ~Live(map, k, t) /\ Answer("get", k, "OK", Nil, 0, FALSE)
       \/ k \in DOMAIN map /\ Refuse("get", k, "ERROR")
       \/ /\ k \in DOMAIN map /\ map[k].val # List
          /\ Answer("get", k, "OK", map[k].val,
                    IF Live(map, k, t) THEN 0 ELSE 1, FALSE)

SetExpire(k, ttl, t0) ==
    /\ making' = None
    /\ \/ /\ k \notin DOMAIN map /\ map' = map
          /\ Refuse("set_expire", k, "DECLINED")
       \/ /\ k \in DOMAIN map /\ map' = [map EXCEPT ![k].expires = Expires(t0, ttl)]
          /\ Answer("set_expire", k, "OK", Nil, 0, FALSE)

GetTtl(k, t) ==
    /\ map' = map /\ making' = None
    /\ Answer("get_ttl", k, "OK", Nil,
              IF k \notin DOMAIN map THEN -5
              ELSE IF map[k].expires = 0 THEN 0 ELSE map[k].expires - t, FALSE)

\* Every entry expires at once, and some are gone at once.
FlushAll ==
    /\ \E gone \in SUBSET DOMAIN map :
          map' = [k \in DOMAIN map \ gone |-> [map[k] EXCEPT !.expires = 1]]
    /\ making' = None
    /\ Answer("flush_all", None, "OK", Nil, 0, FALSE)

Push(dir, k, v, t) ==
    LET add(s) == IF dir = "lpush" THEN Cons(v, s) ELSE Append(s, v)
    IN /\ making' = None
       /\ \E m \in Aged :
             \/ /\ v.type = "boolean" \/ (Live(m, k, t) /\ m[k].val # List)
                /\ Refuse(dir, k, "ERROR") /\ map' = m
             \/ /\ Refuse(dir, k, "NOMEM")
                /\ map' = IF Live(m, k, t) THEN m ELSE Without(m, {k})
             \/ /\ v.type # "boolean"
                /\ Live(m, k, t) => m[k].val = List
                /\ LET old == IF Live(m, k, t) THEN m[k].items ELSE <<>>
                       x == IF Live(m, k, t) THEN m[k].expires ELSE 0
                   IN /\ map' = With(m, k, List, add(old), x)
                      /\ \E n \in {Len(old) + 1} \cup Late :
                            Answer(dir, k, "OK", v, n, FALSE)

Pop(dir, k, t) ==
    LET pick(s) == IF dir = "lpop" THEN Head(s) ELSE Last(s)
        rest(s) == IF dir = "lpop" THEN Tail(s) ELSE Front(s)
    IN /\ making' = None
       /\ \E m \in Aged :
             \/ ~Live(m, k, t) /\ Answer(dir, k, "OK", Nil, 0, FALSE) /\ map' = m
             \/ Live(m, k, t) /\ Refuse(dir, k, "ERROR") /\ map' = m
             \/ /\ Live(m, k, t) /\ m[k].val = List
                /\ map' = IF Len(m[k].items) = 1 THEN Without(m, {k})
                          ELSE [m EXCEPT ![k].items = rest(@)]
                /\ Answer(dir, k, "OK", pick(m[k].items), 0, FALSE)

Llen(k, t) ==
    /\ making' = None
    /\ map' \in Aged
    /\ \/ ~Live(map', k, t) /\ Answer("llen", k, "OK", Nil, 0, FALSE)
       \/ Live(map', k, t) /\ map'[k].val # List /\ Refuse("llen", k, "ERROR")
       \/ /\ Live(map', k, t) /\ map'[k].val = List
          /\ \E n \in {Len(map'[k].items)} \cup Late :
                Answer("llen", k, "OK", Nil, n, FALSE)

-----------------------------------------------------------------------------

Init ==
    /\ map = [k \in {} |-> Nil]
    /\ making = None
    /\ now \in Time
    /\ ret = [op |-> "init", key |-> None, rc |-> "OK", val |-> Nil, num |-> 0,
              forcible |-> FALSE]

\* The call that takes the step: the one that returns or goes on to make room.
Asked == IF making' = None THEN ret' ELSE making'

Operation(op, k, t) ==
    \/ /\ op \in {"set", "safe_set", "add", "safe_add", "replace"}
       /\ \E v \in Value \cup {Nil}, ttl \in Ttl : Store(op, k, v, ttl, t)
    \/ /\ op = "incr"
       /\ \E by \in By, init \in By \cup {None}, ttl \in Ttl, t0 \in Time :
             Incr(k, by, init, ttl, t0, t)
    \/ op = "set_expire" /\ \E ttl \in Ttl, t0 \in Time : SetExpire(k, ttl, t0)
    \/ op \in {"lpush", "rpush"} /\ \E v \in Value : Push(op, k, v, t)
    \/ op \in {"lpop", "rpop"} /\ Pop(op, k, t)
    \/ op = "get" /\ Get(k, t)
    \/ op = "get_ttl" /\ GetTtl(k, t)
    \/ op = "llen" /\ Llen(k, t)
    \/ op = "flush_all" /\ FlushAll

Next ==
    /\ now' \in Time
    /\ \/ UNCHANGED <<map, making, ret>>
       \/ making # None /\ MakeRoom(now')
       \/ making = None /\ Operation(Asked.op, Asked.key, now')

Spec == Init /\ [][Next]_vars
=============================================================================
