--------------------------- MODULE VersionedDatabase ---------------------------
(***************************************************************************)
(* What a database promises to those who open it (docs of Factory::open,    *)
(* open_latest_version and delete_database): nothing about it changes while *)
(* somebody holds it, and an upgrade happens as a whole or not at all.      *)
(***************************************************************************)
EXTENDS Naturals

CONSTANT Clients

VARIABLES
  version,    \* the version, 0 when the database does not exist
  schema,     \* the version whose upgrade callback made the schema
  holds       \* the version of the database that each client holds, 0 for none

versionedVars == << version, schema, holds >>

VersionedInit == version = 0 /\ schema = 0 /\ holds = [c \in Clients |-> 0]

Free == \A c \in Clients : holds[c] = 0

(* A client gets the database at the version that it has.                   *)
Acquire(c) ==
  /\ holds[c] = 0 /\ version # 0
  /\ holds' = [holds EXCEPT ![c] = version]
  /\ UNCHANGED << version, schema >>

Release(c) ==
  /\ holds[c] # 0
  /\ holds' = [holds EXCEPT ![c] = 0]
  /\ UNCHANGED << version, schema >>

(* The version rises together with what its upgrade callback does ...       *)
Raise ==
  /\ Free /\ version' > version
  /\ schema' = version'
  /\ UNCHANGED holds

(* ... except that open_latest_version creates a database without callback. *)
Create ==
  /\ Free /\ version = 0
  /\ version' = 1
  /\ UNCHANGED << schema, holds >>

Delete ==
  /\ Free
  /\ version' = 0 /\ schema' = 0
  /\ UNCHANGED holds

VersionedNext ==
  \/ Raise \/ Create \/ Delete
  \/ \E c \in Clients : Acquire(c) \/ Release(c)

VersionedSpec == VersionedInit /\ [][VersionedNext]_versionedVars
================================================================================
