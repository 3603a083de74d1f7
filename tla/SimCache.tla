------------------------------ MODULE SimCache ------------------------------
(***************************************************************************)
(* sim_cache.cc: the tags and the replacement of the cache classes, and    *)
(* levels of them.  main() builds its levels from setAssocCache; the other *)
(* classes implement the same interface.  Loads and stores of the core and *)
(* the warm-up by the interpreter end in access(); the list of accesses in *)
(* flight is in OoOCore.  Hit counters are left out.                       *)
(***************************************************************************)
EXTENDS MyList, SequencesExt, FiniteSetsExt

CONSTANTS
    Configs,       \* sequences of levels, each a record of the constructor's
                   \* arguments with the name of its class
    Addrs,         \* addresses
    MemLatency     \* mem_latency

ListKinds == {"setAssoc", "fullAssoc"}
TreeKinds == {"highAssoc", "lowAssoc", "realLRU"}
Geometry ==
    [kind : ListKinds \cup TreeKinds \cup {"directMapped", "fullRandAssoc"},
     assoc : Nat \ {0}, sets : Nat \ {0}, line : Nat \ {0}, latency : Nat]

(* There is a level, and the pool, which has no limit in the code, has a    *)
(* node for every way.                                                     *)
ASSUME ConfigsAssumption ==
    \A c \in Configs :
        /\ c \in Seq(Geometry) /\ c # <<>>
        /\ \A k \in DOMAIN c : c[k].kind \in ListKinds => c[k].assoc <= MaxNodes
ASSUME AddrsAssumption == Addrs \subseteq Nat /\ MemLatency \in Nat
(* The laws of powers that the proofs use: the provers have no theory of   *)
(* `^'.                                                                    *)
ASSUME PowersAssumption ==
    \A c \in Configs : \A k \in DOMAIN c :
        2 ^ 0 = 1 /\ \A j \in 0 .. c[k].assoc : 2 ^ j \in Nat \ {0} /\ 2 ^ (j + 1) = 2 * 2 ^ j

VARIABLES
    cfg,           \* the levels, first l1d
    lvl,           \* [level -> [set -> tags and replacement state]]
    lat,           \* what the last access cost
    recent         \* history: the last tags used in a set of a highAssocCache

vars == <<cfg, lvl, lat, recent>>

Levels == DOMAIN cfg
(* simCache::index.                                                        *)
SetOf(k, a) == (a \div cfg[k].line) % cfg[k].sets
TagOf(k, a) == a \div (cfg[k].line * cfg[k].sets)
-----------------------------------------------------------------------------
(* cacheset::access, and the same in fullAssocCache.                       *)
\* mutant of ListAccess: a hit moves nothing
ListAccessFifo(l, assoc, t) ==
    IF find(l, t) # null THEN l
    ELSE push_front(IF l.cnt = assoc THEN pop_back(l) ELSE l, t)
ListAccess(l, assoc, t) ==
    IF find(l, t) # null
    THEN move_to_head(l, find(l, t))
    ELSE push_front(IF l.cnt = assoc THEN pop_back(l) ELSE l, t)

(* The tree of highAssocCache and lowAssocCache: node 1 is the root, 2n    *)
(* and 2n + 1 are the children of n, leaf assoc + i is way i.  Marked: the *)
(* inner nodes above way i take one value for a left and one for a right   *)
(* child.                                                                  *)
Above(assoc, i) == {(assoc + i) \div 2^j : j \in 0 .. assoc} \ {0}
Marked(lru, assoc, i, left, right) ==
    [n \in DOMAIN lru |->
        IF 2 * n \in Above(assoc, i) THEN left
        ELSE IF 2 * n + 1 \in Above(assoc, i) THEN right ELSE lru[n]]
(* The leaf found by going right at the nodes whose value is in `turn'.    *)
Descend(lru, assoc, turn) ==
    LET from[d \in 0 .. assoc] ==      \* the node at depth d, or the leaf
            IF d = 0 THEN 1
            ELSE LET n == from[d - 1]
                 IN  IF n >= assoc THEN n
                     ELSE IF lru[n] \in turn THEN 2 * n + 1 ELSE 2 * n
    IN  from[assoc] - assoc

(* updateLRU and findLRU: high keeps 2 when it last went right and 1 when  *)
(* left, 0 at first, and turns the other way; low sets a bit when a left   *)
(* way is used, and goes left where it is set.                             *)
Updated(kind, lru, assoc, i) ==
    CASE kind = "highAssoc" -> Marked(lru, assoc, i, 1, 2)
      [] kind = "lowAssoc"  -> Marked(lru, assoc, i, 1, 0)
      [] kind = "realLRU"   -> <<i>> \o Remove(lru, i)    \* by time stamp
FoundLRU(kind, lru, assoc) ==
    CASE kind = "highAssoc" -> Descend(lru, assoc, {1})
      [] kind = "lowAssoc"  -> Descend(lru, assoc, {0})
      [] kind = "realLRU"   -> Last(lru)
\* mutant of AfterFind: nothing is noted
AfterFindNone(kind, lru, assoc, i) == lru
AfterFind(kind, lru, assoc, i) ==
    CASE kind = "highAssoc" -> Marked(lru, assoc, i, 1, 2)
      [] kind = "lowAssoc"  -> Marked(lru, assoc, i, 0, 1)
      [] kind = "realLRU"   -> lru

WaysOf(set, t) == {i \in DOMAIN set.tag : (set.allvalid \/ set.valid[i]) /\ set.tag[i] = t}
Filled(kind, set, assoc, i, t) ==
    LET valid == [set.valid EXCEPT ![i] = TRUE]
    IN  [set EXCEPT !.valid = valid, !.tag[i] = t,
                    !.allvalid = \A w \in DOMAIN valid : valid[w],
                    !.lru = Updated(kind, @, assoc, i)]
TreeAccess(kind, set, assoc, t) ==
    IF WaysOf(set, t) # {}
    THEN [set EXCEPT !.lru = Updated(kind, @, assoc, Min(WaysOf(set, t)))]
    ELSE IF set.allvalid
         THEN LET i == FoundLRU(kind, set.lru, assoc)
              IN  [set EXCEPT !.tag[i] = t, !.lru = AfterFind(kind, @, assoc, i)]
         ELSE Filled(kind, set, assoc, Min({i \in DOMAIN set.tag : ~set.valid[i]}), t)

(* fullRandAssocCache: the tags in the order they came, r is rand().       *)
RandAccess(set, assoc, t, r) ==
    IF Contains(set, t) THEN set
    ELSE IF Len(set) # assoc THEN Append(set, t)
    ELSE [set EXCEPT ![(r % assoc) + 1] = t]
-----------------------------------------------------------------------------
EmptySet(k) ==
    LET c == cfg[k]
        ways == 0 .. c.assoc - 1
    IN  CASE c.kind \in ListKinds -> EmptyList
          [] c.kind = "directMapped" -> <<>>
          [] c.kind = "fullRandAssoc" -> <<>>
          [] c.kind \in TreeKinds ->
                [valid |-> [i \in ways |-> FALSE], tag |-> [i \in ways |-> 0],
                 allvalid |-> FALSE,
                 lru |-> IF c.kind = "realLRU" THEN <<>>
                         ELSE [n \in 1 .. c.assoc - 1 |-> 0]]

Holds(k, a) ==
    LET set == lvl[k][SetOf(k, a)]
    IN  CASE cfg[k].kind \in ListKinds -> find(set, TagOf(k, a)) # null
          [] cfg[k].kind \in TreeKinds -> WaysOf(set, TagOf(k, a)) # {}
          [] OTHER -> Contains(set, TagOf(k, a))

(* access() of one level.  A directMappedCache has one tag per set.        *)
Accessed(k, set, t, r) ==
    CASE cfg[k].kind \in ListKinds -> ListAccess(set, cfg[k].assoc, t)
      [] cfg[k].kind \in TreeKinds -> TreeAccess(cfg[k].kind, set, cfg[k].assoc, t)
      [] cfg[k].kind = "directMapped" -> <<t>>
      [] cfg[k].kind = "fullRandAssoc" -> RandAccess(set, cfg[k].assoc, t, r)

(* The levels an access descends to: three classes neither ask the next    *)
(* level nor add to the latency, and only setAssocCache charges the        *)
(* memory.                                                                 *)
Leaf(k) == cfg[k].kind \in {"directMapped", "fullAssoc", "fullRandAssoc"}
Reached(k, a) == \A j \in 1 .. k - 1 : ~Holds(j, a) /\ ~Leaf(j)
Latency(a) ==
    SumFunction([k \in {j \in Levels : Reached(j, a)} |->
                    IF Leaf(k) THEN 0 ELSE cfg[k].latency])
    + LET last == Len(cfg)
      IN  IF Reached(last, a) /\ ~Holds(last, a) /\ cfg[last].kind = "setAssoc"
          THEN MemLatency ELSE 0

(* How many lines the tree keeps from replacement: one per level of it.    *)
Kept(k) == IF cfg[k].kind # "highAssoc" THEN 0 ELSE Max({n \in 0 .. cfg[k].assoc : 2^n <= cfg[k].assoc})
Noted(k, s, t) ==
    LET others == RemoveFirst(s, t)
    IN  SubSeq(<<t>> \o others, 1, Min({Len(others) + 1, Kept(k)}))

Init ==
    /\ cfg \in Configs
    /\ lvl = [k \in Levels |-> [s \in 0 .. cfg[k].sets - 1 |-> EmptySet(k)]]
    /\ lat = 0
    /\ recent = [k \in Levels |-> [s \in 0 .. cfg[k].sets - 1 |-> <<>>]]

(* read(addr) and write(addr): no class tells them apart.                  *)
access(a, r) ==
    /\ lvl' = [k \in Levels |->
                  IF Reached(k, a)
                  THEN [lvl[k] EXCEPT ![SetOf(k, a)] = Accessed(k, @, TagOf(k, a), r)]
                  ELSE lvl[k]]
    /\ lat' = Latency(a)
    /\ recent' = [k \in Levels |->
                     IF Reached(k, a)
                     THEN [recent[k] EXCEPT ![SetOf(k, a)] = Noted(k, @, TagOf(k, a))]
                     ELSE recent[k]]
    /\ UNCHANGED cfg

(* The tree classes keep tags and lru, and lose valid.                     *)
\* mutant of Cleared: allvalid stays
ClearedValid(k, set) ==
    IF cfg[k].kind \in TreeKinds
    THEN [set EXCEPT !.valid = [i \in DOMAIN @ |-> FALSE]]
    ELSE EmptySet(k)
Cleared(k, set) ==
    IF cfg[k].kind \in TreeKinds
    THEN [set EXCEPT !.valid = [i \in DOMAIN @ |-> FALSE], !.allvalid = FALSE]
    ELSE EmptySet(k)
flush ==
    /\ lvl' = [k \in Levels |-> [s \in DOMAIN lvl[k] |-> Cleared(k, lvl[k][s])]]
    /\ recent' = [k \in Levels |-> [s \in DOMAIN recent[k] |-> <<>>]]
    /\ UNCHANGED <<cfg, lat>>

(* Only the classes with lists drop the line; the others pass it on.       *)
flush_line(a) ==
    /\ lvl' = [k \in Levels |->
                  IF cfg[k].kind \in ListKinds
                  THEN [lvl[k] EXCEPT ![SetOf(k, a)] = erase(@, find(@, TagOf(k, a)))]
                  ELSE lvl[k]]
    /\ UNCHANGED <<cfg, lat, recent>>

(* rand(), in the configurations that ask for it.                          *)
Rands == IF \E k \in Levels : cfg[k].kind = "fullRandAssoc" THEN {0, 1} ELSE {0}

Next ==
    \/ \E a \in Addrs, r \in Rands : access(a, r)
    \/ flush
    \/ \E a \in Addrs : flush_line(a)

Spec == Init /\ [][Next]_vars
-----------------------------------------------------------------------------
(* The list of a set stays a list through hits, replacements and flushes   *)
(* of lines: from head it meets cnt entries and ends at tail.  clear()     *)
(* asserts as much (sim_cache.hh:222), find() and pop_back() rely on it.   *)
ListIntact ==
    \A k \in Levels : cfg[k].kind \in ListKinds =>
        \A s \in DOMAIN lvl[k] : Intact(lvl[k][s])

(* A tree of depth d never replaces one of the last d lines used in the    *)
(* set: findLRU turns away from where updateLRU and findLRU itself went    *)
(* (sim_cache.cc:186).                                                     *)
KeepsRecent ==
    \A k \in Levels : \A s \in DOMAIN recent[k] :
        \A j \in DOMAIN recent[k][s] : WaysOf(lvl[k][s], recent[k][s][j]) # {}

(* No line is in two ways of its set, whatever was flushed, filled and     *)
(* replaced before; allvalid, which lets a lookup skip the valid bits       *)
(* (sim_cache.cc:429), is set exactly when all ways are valid.             *)
WaysExact ==
    \A k \in Levels : cfg[k].kind \in TreeKinds =>
        \A s \in DOMAIN lvl[k] :
            LET set == lvl[k][s]
            IN  /\ \A i, j \in DOMAIN set.tag :
                      set.valid[i] /\ set.valid[j] /\ set.tag[i] = set.tag[j] => i = j
                /\ set.allvalid <=> \A i \in DOMAIN set.valid : set.valid[i]

(* Levels of setAssocCache are LRU levels, latencies included              *)
(* (sim_cache.hh:406, sim_cache.cc:346).                                   *)
Lru == INSTANCE LruLevels WITH
    lru <- [k \in Levels |->
               [s \in DOMAIN lvl[k] |->
                   IF cfg[k].kind \in ListKinds THEN Tags(lvl[k][s]) ELSE <<>>]]
AllSetAssoc == \A k \in Levels : cfg[k].kind = "setAssoc"
ImplementsLru == Lru!Init /\ [][AllSetAssoc => Lru!Next]_(Lru!vars)
=============================================================================
