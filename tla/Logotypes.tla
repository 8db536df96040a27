------------------------------ MODULE Logotypes -----------------------------
(***************************************************************************)
(* The logotypes of organizations (services/organization_card_write.py)    *)
(* and the cache of their data URLs in Redis (services/logotypes_batch.py).*)
(*                                                                         *)
(* A request that changes a logotype is a MySQL transaction at REPEATABLE  *)
(* READ, followed by its calls to Redis.  A logotype is never changed: an  *)
(* upload inserts a new row, whose id no other row has had.  Organizations *)
(* of old data may share a logotype.  A page lists organizations first and *)
(* then asks for their logotypes.                                          *)
(***************************************************************************)
EXTENDS Integers, FiniteSets

CONSTANTS
  Orgs,
  OldLogos,     \* logotypes that were there before
  Requests,     \* bound: each changes a logotype or deletes an organization
  Readers,      \* bound: each is one call of fetch_logotypes_batch
  Nil

Logos == OldLogos \cup Requests      \* a new logotype is named after its request

ASSUME LogoAssumption ==
  /\ OldLogos \cap Requests = {} /\ Nil \notin Logos \cup Orgs

VARIABLES
  there,    \* organizations
  logo,     \* organization.logotype_id, or Nil
  rows,     \* organization_detaillogotype
  cache,    \* what Redis has for the key of a logotype
  tx,
  reader,
  before,   \* history: the requests that had committed when a request began
  late      \* history: logotypes cached when they were gone, or whose DEL failed

vars == <<there, logo, rows, cache, tx, reader, before, late>>
tables == <<there, logo, rows>>
redis == <<cache, late>>

Cached == {"miss", "url", "none"}
Kinds == {"save", "clear", "delete"}
Points == {"idle", "write", "commit", "fill", "drop", "done"}
TxRec == [at : Points, kind : Kinds, org : Orgs \cup {Nil}, prev : Logos \cup {Nil},
          seen : [Orgs -> Logos \cup {Nil}]]
ReaderRec == [at : {"idle", "ask", "query", "store", "done"}, want : SUBSET Logos,
              missing : SUBSET Logos, shown : [Logos -> Cached]]

Nowhere == [o \in Orgs |-> Nil]
Idle == [at |-> "idle", kind |-> "save", org |-> Nil, prev |-> Nil, seen |-> Nowhere]
Waiting == [at |-> "idle", want |-> {}, missing |-> {}, shown |-> [l \in Logos |-> "miss"]]

Committed(r) == tx[r].at \in {"fill", "drop", "done"}
Over == {r \in Requests : Committed(r)}

(* SQLAlchemy writes organization.logotype_id only if it differs from what *)
(* was read: clearing no logotype writes nothing.                          *)
Writes(r) == tx[r].kind # "clear" \/ tx[r].prev # Nil

(* The row of an organization is held from its UPDATE to the end.          *)
Holds(r, o) == tx[r].at = "commit" /\ tx[r].org = o /\ Writes(r)

At(r, p) == tx[r].at = p
Goto(r, p) == tx' = [tx EXCEPT ![r].at = p]

-----------------------------------------------------------------------------
(* _get_organization_for_update: a plain read, which opens the snapshot.   *)
Begin(r, o, kind) ==
  /\ At(r, "idle") /\ o \in there
  /\ tx' = [tx EXCEPT ![r] = [at |-> "write", kind |-> kind, org |-> o, prev |-> logo[o],
                              seen |-> logo]]
  /\ before' = [before EXCEPT ![r] = Over]
  /\ UNCHANGED <<tables, redis, reader>>

(* The statements up to the COMMIT, which wait for the row of the          *)
(* organization only: INSERT of a logotype, UPDATE or DELETE of the        *)
(* organization, DELETE of the orphan.  An UPDATE that matches no row      *)
(* fails; a DELETE goes on.                                                *)
Write(r) ==
  LET o == tx[r].org IN
  /\ At(r, "write")
  /\ Writes(r) => /\ \A q \in Requests \ {r} : ~Holds(q, o)
                  /\ o \in there \/ tx[r].kind = "delete"
  /\ Goto(r, "commit")
  /\ UNCHANGED <<tables, redis, reader, before>>

(* A bug: every logotype that is replaced is deleted.                      *)
DeletedAlways(r) == {tx[r].prev} \ {Nil}

(* A bug: the organization itself is not left out of the count.            *)
DeletedByNobody(r) ==
  {l \in {tx[r].prev} \ {Nil} : \A o \in Orgs : tx[r].seen[o] # l}

(* _delete_orphan_logotype: the references of other organizations are      *)
(* counted in the snapshot.  A DELETE of a row that is gone by now does    *)
(* nothing.                                                                *)
Deleted(r) ==
  {l \in {tx[r].prev} \ {Nil} : \A o \in Orgs \ {tx[r].org} : tx[r].seen[o] # l}

(* A bug: an upload expects the row of the old logotype to be there.       *)
InsertedFirst(r) == IF tx[r].kind = "save" /\ tx[r].prev = Nil THEN {r} ELSE {}

Inserted(r) == IF tx[r].kind = "save" THEN {r} ELSE {}

(* COMMIT.  The foreign key sets every reference to a deleted logotype to  *)
(* NULL.                                                                   *)
Commit(r) ==
  LET o == tx[r].org IN
  /\ At(r, "commit")
  /\ rows' = (rows \cup Inserted(r)) \ Deleted(r)
  /\ logo' = [x \in Orgs |-> IF x = o /\ Writes(r)
                             THEN IF tx[r].kind = "save" THEN r ELSE Nil
                             ELSE IF logo[x] \in Deleted(r) THEN Nil ELSE logo[x]]
  /\ there' = IF tx[r].kind = "delete" THEN there \ {o} ELSE there
  /\ tx' = [tx EXCEPT ![r].at = IF tx[r].kind = "save" THEN "fill" ELSE "drop",
                      ![r].seen = Nowhere]
  /\ UNCHANGED <<redis, reader, before>>

(* An error, a deadlock or a timeout: ROLLBACK, and nothing has happened.  *)
Fail(r) ==
  /\ tx[r].at \in {"write", "commit"}
  /\ tx' = [tx EXCEPT ![r] = Idle]
  /\ before' = [before EXCEPT ![r] = {}]
  /\ UNCHANGED <<tables, redis, reader>>

Put(values) ==
  /\ cache' = [l \in Logos |-> IF l \in DOMAIN values THEN values[l] ELSE cache[l]]
  /\ late' = late \cup (DOMAIN values \ rows)

(* cache_logotype_data; errors of Redis are passed over.                   *)
Fill(r) ==
  /\ At(r, "fill")
  /\ Put([l \in {r} |-> "url"]) \/ UNCHANGED redis
  /\ Goto(r, "drop")
  /\ UNCHANGED <<tables, reader, before>>

(* A bug: the entry of the new logotype is deleted instead.                *)
StaleKey(r) == IF tx[r].kind = "save" THEN r ELSE tx[r].prev

Key(r) == tx[r].prev

(* A bug: "no picture" is stored for it, though others may still use it.   *)
DropToNone(r) ==
  /\ At(r, "drop")
  /\ cache' = [l \in Logos |-> IF l = Key(r) THEN "none" ELSE cache[l]]
  /\ Goto(r, "done")
  /\ UNCHANGED <<tables, late, reader, before>>

(* invalidate_logotype_cache                                               *)
Drop(r) ==
  /\ At(r, "drop")
  /\ \/ /\ cache' = [l \in Logos |-> IF l = Key(r) THEN "miss" ELSE cache[l]]
        /\ UNCHANGED late
     \/ late' = late \cup ({tx[r].prev} \ (rows \cup {Nil})) /\ UNCHANGED cache
  /\ Goto(r, "done")
  /\ UNCHANGED <<tables, reader, before>>

-----------------------------------------------------------------------------
(* A page has been rendered, and asks for some of the logotypes it names.  *)
Open(p, want) ==
  /\ reader[p].at = "idle" /\ want # {}
  /\ want \subseteq {logo[o] : o \in there} \ {Nil}
  /\ reader' = [reader EXCEPT ![p].at = "ask", ![p].want = want]
  /\ UNCHANGED <<tables, redis, tx, before>>

(* fetch_logotypes_batch, MGET, which may fail.                            *)
Ask(p, answered) ==
  LET hit == {l \in reader[p].want : answered /\ cache[l] # "miss"}
      rest == reader[p].want \ hit IN
  /\ reader[p].at = "ask"
  /\ reader' = [reader EXCEPT ![p].at = IF rest = {} THEN "done" ELSE "query",
                              ![p].missing = rest,
                              ![p].shown = [l \in Logos |-> IF l \in hit THEN cache[l]
                                                                        ELSE "miss"]]
  /\ UNCHANGED <<tables, redis, tx, before>>

(* fetch_logotypes_batch, SELECT of what the cache does not have.          *)
Query(p) ==
  /\ reader[p].at = "query"
  /\ reader' = [reader EXCEPT ![p].at = "store",
                              ![p].shown = [l \in Logos |->
                                IF l \notin reader[p].missing THEN reader[p].shown[l]
                                ELSE IF l \in rows THEN "url" ELSE "none"]]
  /\ UNCHANGED <<tables, redis, tx, before>>

(* _set_cache_values: one pipeline, which may fail.                        *)
Store(p) ==
  /\ reader[p].at = "store"
  /\ Put([l \in reader[p].missing |-> reader[p].shown[l]]) \/ UNCHANGED redis
  /\ reader' = [reader EXCEPT ![p].at = "done", ![p].missing = {}]
  /\ UNCHANGED <<tables, tx, before>>

(* LOGO_CACHE_TTL_SECONDS are over.                                        *)
Expire(l) ==
  /\ cache[l] # "miss"
  /\ cache' = [cache EXCEPT ![l] = "miss"]
  /\ UNCHANGED <<tables, late, tx, reader, before>>

-----------------------------------------------------------------------------
Init ==
  /\ there \in SUBSET Orgs
  /\ logo \in [Orgs -> OldLogos \cup {Nil}] /\ \A o \in Orgs \ there : logo[o] = Nil
  /\ rows = {logo[o] : o \in Orgs} \ {Nil}
  /\ cache = [l \in Logos |-> "miss"]
  /\ tx = [r \in Requests |-> Idle]
  /\ reader = [p \in Readers |-> Waiting]
  /\ before = [r \in Requests |-> {}]
  /\ late = {}

Change(r) ==
  \/ \E o \in Orgs, kind \in Kinds : Begin(r, o, kind)
  \/ Write(r) \/ Commit(r) \/ Fail(r)
  \/ Fill(r) \/ Drop(r)

Read(p) ==
  \/ \E want \in SUBSET Logos : Open(p, want)
  \/ \E answered \in BOOLEAN : Ask(p, answered)
  \/ Query(p) \/ Store(p)

Next ==
  \/ \E r \in Requests : Change(r)
  \/ \E p \in Readers : Read(p)
  \/ \E l \in Logos : Expire(l)

Spec == Init /\ [][Next]_vars

-----------------------------------------------------------------------------
(* The tables, the cache and the requests keep their types, and no         *)
(* organization has a logotype that does not exist.                        *)
TypeOK ==
  /\ there \in SUBSET Orgs
  /\ logo \in [Orgs -> Logos \cup {Nil}]
  /\ rows \in SUBSET Logos
  /\ cache \in [Logos -> Cached]
  /\ tx \in [Requests -> TxRec]
  /\ reader \in [Readers -> ReaderRec]
  /\ before \in [Requests -> SUBSET Requests]
  /\ late \in SUBSET Logos
  /\ \A o \in Orgs : logo[o] \in rows \cup {Nil}

(* An organization keeps its logotype until a request of its own replaces  *)
(* or removes it: whatever is swept elsewhere, and however old the         *)
(* snapshot that counted the references, the foreign key takes no          *)
(* logotype away (_delete_orphan_logotype).                                *)
LogotypeKept ==
  [][\A o \in Orgs : logo'[o] # logo[o] =>
       \E r \in Requests : Committed(r)' /\ ~Committed(r) /\ tx[r].org = o]_vars

Overlapped(q, r) == q # r /\ q \notin before[r] /\ r \notin before[q]

(* A logotype nobody refers to is left behind only by two requests that    *)
(* overlapped: one replaced what the other had just stored, or each took   *)
(* the other for a user of the logotype they both gave up                  *)
(* (save_organization_logo, delete_organization_logo,                      *)
(* delete_organization_safely).                                            *)
OrphanOnlyByOverlap ==
  \A l \in rows : (\A o \in there : logo[o] # l) =>
    \E q, r \in Requests :
      /\ Committed(q) /\ Committed(r) /\ Overlapped(q, r)
      /\ \/ q = l /\ tx[q].org = tx[r].org
         \/ tx[q].prev = l /\ tx[r].prev = l

(* A page gets the picture of every logotype that is still there; "no      *)
(* picture" is answered, and remembered in Redis, only for one that has    *)
(* been deleted, through every interleaving of fetches, replacements,      *)
(* lapses and errors of Redis (fetch_logotypes_batch).                     *)
PictureShown ==
  /\ \A l \in rows : cache[l] # "none"
  /\ \A p \in Readers : reader[p].at = "done" =>
       \A l \in reader[p].want \cap rows : reader[p].shown[l] = "url"

(* The entry of a deleted logotype is gone when the request that deleted   *)
(* it is over, unless Redis failed, or somebody stored what he had read    *)
(* before (invalidate_logotype_cache after the commit).                    *)
EntryDropped ==
  \A l \in Logos \ rows : cache[l] = "url" =>
    \/ l \in late
    \/ \E r \in Requests : tx[r].prev = l /\ tx[r].at \in {"fill", "drop"}
=============================================================================
