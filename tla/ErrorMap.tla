------------------------------ MODULE ErrorMap ------------------------------
(***************************************************************************)
(* Which error of the browser becomes which variant of the crate's Error,   *)
(* per operation: the `map_*_err` functions of src/utils.rs, the inline     *)
(* closures of src/object_store.rs and src/factory.rs, and what they fall   *)
(* back to in src/error.rs.  "panic" is no variant: the call panics.        *)
(***************************************************************************)

from_dom_exception == [ NotSupportedError |-> "OperationNotSupported",
                        NotAllowedError   |-> "OperationNotAllowed",
                        VersionError      |-> "VersionTooOld" ]

(* The cases of one table, then from_js_value for what is not in it.        *)
Mapped(table, name) ==
  IF name \in DOMAIN table THEN table[name]
  ELSE IF name \in DOMAIN from_dom_exception THEN from_dom_exception[name]
  ELSE "panic"

(* Mutant: nobody thought of the key that exists already.                   *)
add_err_without_constraint ==
  [ ReadOnlyError |-> "ReadOnly", TransactionInactiveError |-> "panic",
    DataError |-> "InvalidKey", InvalidStateError |-> "ObjectStoreWasRemoved",
    DataCloneError |-> "FailedClone" ]

map_add_err ==
  [ ReadOnlyError |-> "ReadOnly", TransactionInactiveError |-> "panic",
    DataError |-> "InvalidKey", InvalidStateError |-> "ObjectStoreWasRemoved",
    DataCloneError |-> "FailedClone", ConstraintError |-> "AlreadyExists" ]

map_clear_err == [ ReadOnlyError |-> "ReadOnly", TransactionInactiveError |-> "panic" ]

map_delete_err ==
  [ ReadOnlyError |-> "ReadOnly", InvalidStateError |-> "ObjectStoreWasRemoved",
    TransactionInactiveError |-> "panic", DataError |-> "InvalidKey" ]

map_count_err ==
  [ InvalidStateError |-> "ObjectStoreWasRemoved", TransactionInactiveError |-> "panic",
    DataError |-> "InvalidKey" ]

map_get_err ==
  [ InvalidStateError |-> "ObjectStoreWasRemoved", TransactionInactiveError |-> "panic",
    DataError |-> "InvalidKey" ]

map_open_cursor_err ==
  [ InvalidStateError |-> "ObjectStoreWasRemoved", TransactionInactiveError |-> "panic",
    DataError |-> "InvalidKey" ]

map_cursor_advance_err ==
  [ InvalidStateError |-> "CursorCompleted", TransactionInactiveError |-> "panic",
    TypeError |-> "InvalidArgument" ]

map_cursor_advance_until_err ==
  [ InvalidStateError |-> "CursorCompleted", TransactionInactiveError |-> "panic",
    DataError |-> "InvalidKey" ]

map_cursor_advance_until_primary_key_err ==
  [ InvalidStateError |-> "CursorCompleted", TransactionInactiveError |-> "panic",
    DataError |-> "InvalidKey", InvalidAccessError |-> "InvalidArgument" ]

map_cursor_delete_err ==
  [ InvalidStateError |-> "CursorCompleted", TransactionInactiveError |-> "panic",
    ReadOnlyError |-> "ReadOnly" ]

map_cursor_update_err ==
  [ InvalidStateError |-> "CursorCompleted", TransactionInactiveError |-> "panic",
    ReadOnlyError |-> "ReadOnly", DataError |-> "InvalidKey", DataCloneError |-> "FailedClone" ]

(* Closures of ObjectStore::index, delete_index and IndexBuilder::create,   *)
(* of VersionChangeEvent::delete_object_store and ObjectStoreBuilder.       *)
index_err == [ InvalidStateError |-> "ObjectStoreWasRemoved", NotFoundError |-> "DoesNotExist" ]

create_index_err ==
  [ ConstraintError |-> "AlreadyExists", InvalidAccessError |-> "InvalidArgument",
    InvalidStateError |-> "ObjectStoreWasRemoved", SyntaxError |-> "InvalidKey" ]

delete_store_err ==
  [ InvalidStateError |-> "InvalidCall", TransactionInactiveError |-> "panic",
    NotFoundError |-> "DoesNotExist" ]

create_store_err ==
  [ InvalidStateError |-> "InvalidCall", TransactionInactiveError |-> "panic",
    ConstraintError |-> "AlreadyExists", InvalidAccessError |-> "InvalidArgument" ]
=============================================================================
