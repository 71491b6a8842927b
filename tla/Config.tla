-------------------------------- MODULE Config --------------------------------
(***************************************************************************)
(* What New does with the caller's Config before any goroutine starts:     *)
(* config.WithDefaults(), config.Validate(), then createDatastore.  All    *)
(* three are pure functions of the Config, written here as operators and   *)
(* checked over every combination of the abstract field values below.      *)
(*                                                                         *)
(* A string field is abstracted to what the code tells apart: "" (unset),  *)
(* "ws" (whitespace only), "addr" (an address net.ResolveTCPAddr accepts)  *)
(* and "bad" (one it rejects).  A datastore type is "", "memdb", "MEMDB"   *)
(* (other case), "padded" (" memdb "), "postgres", "mysql" or "other".     *)
(* The durations WithDefaults fills in are not validated and are left out.*)
(***************************************************************************)
EXTENDS Naturals, Sequences

VARIABLE cfg   \* the Config passed to New, fixed for a run

Addrs == {"", "ws", "addr", "bad"}
DsTypes == {"", "memdb", "MEMDB", "padded", "postgres", "mysql", "other"}

Configs ==
  [GRPCAddress : Addrs, HTTPEnabled : BOOLEAN, HTTPAddress : Addrs,
   PresharedKey : {"", "ws", "key"}, DatastoreType : DsTypes, DatastoreURI : {"", "uri"},
   HealthCheckEnabled : BOOLEAN, HealthCheckAddress : Addrs,
   SchemaFiles : {<<>>, <<"path">>, <<"ws">>}]

-----------------------------------------------------------------------------

\* strings.TrimSpace(s) == ""
IsBlank(s) == s \in {"", "ws"}

\* strings.ToLower, and strings.ToLower(strings.TrimSpace(...)).
Lower(t) == IF t = "MEMDB" THEN "memdb" ELSE t
LowerTrim(t) == IF t = "padded" THEN "memdb" ELSE Lower(t)

DefaultConfig ==
  [GRPCAddress |-> "addr", HTTPEnabled |-> FALSE, HTTPAddress |-> "addr",
   PresharedKey |-> "key", DatastoreType |-> "memdb", DatastoreURI |-> "",
   HealthCheckEnabled |-> FALSE, HealthCheckAddress |-> "addr", SchemaFiles |-> <<>>]

\* Each default replaces only an exactly empty field; the two addresses
\* only when their surface is enabled.
WithDefaults(c) ==
  [c EXCEPT !.GRPCAddress = IF @ = "" THEN "addr" ELSE @,
            !.PresharedKey = IF @ = "" THEN "key" ELSE @,
            !.HTTPAddress = IF @ = "" /\ c.HTTPEnabled THEN "addr" ELSE @,
            !.DatastoreType = IF @ = "" THEN "memdb" ELSE @,
            !.HealthCheckAddress = IF @ = "" /\ c.HealthCheckEnabled THEN "addr" ELSE @]

\* An address check: empty after TrimSpace, or rejected by ResolveTCPAddr.
AddrOk(a) == ~IsBlank(a) /\ a /= "bad"

\* Validate: the set of fields errors.Join reports; nil iff empty.
Validate(c) ==
  { f \in {"GRPCAddress"} : ~AddrOk(c.GRPCAddress) }
  \cup { f \in {"HTTPAddress"} : c.HTTPEnabled /\ ~AddrOk(c.HTTPAddress) }
  \cup { f \in {"PresharedKey"} : IsBlank(c.PresharedKey) }
  \cup { f \in {"DatastoreType"} : LowerTrim(c.DatastoreType) \notin {"", "memdb", "postgres", "mysql"} }
  \cup { f \in {"DatastoreURI"} : LowerTrim(c.DatastoreType) \in {"postgres", "mysql"} /\ IsBlank(c.DatastoreURI) }
  \cup { f \in {"HealthCheckAddress"} : c.HealthCheckEnabled /\ ~AddrOk(c.HealthCheckAddress) }
  \cup { f \in {"SchemaFiles"} : \E i \in DOMAIN c.SchemaFiles : IsBlank(c.SchemaFiles[i]) }

\* createDatastore: only memdb is available; postgres and mysql fail with
\* "not available in standalone embedspicedb", anything else is unsupported.
createDatastore(c) ==
  IF Lower(c.DatastoreType) \in {"", "memdb"} THEN "ok" ELSE "dsErr"

\* New's outcome: "invalid config", a datastore error, or a server.
New(c) ==
  LET d == WithDefaults(c)
  IN IF Validate(d) /= {} THEN "invalid" ELSE createDatastore(d)

-----------------------------------------------------------------------------

Init == cfg \in Configs
Next == UNCHANGED cfg
Spec == Init /\ [][Next]_cfg

\* Spec 7: configuration errors fail fast, and a datastore type Validate
\* accepts as the in-memory store is the one createDatastore builds: when
\* Validate reads the type as memdb, New does not fail in createDatastore.
ValidatedMemdbCreated ==
  LowerTrim(WithDefaults(cfg).DatastoreType) = "memdb" /\ Validate(WithDefaults(cfg)) = {}
    => New(cfg) = "ok"

=============================================================================
