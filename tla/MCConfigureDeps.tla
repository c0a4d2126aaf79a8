--------------------------- MODULE MCConfigureDeps ---------------------------
(* Two task generators; `use` unset, an empty or one-name string, an empty *)
(* or one-name list; the default uselib_store and one other.              *)
EXTENDS ConfigureDeps

MCTaskGens == {"lib", "daemon"}
MCUseStrings == {[kind |-> "unset", items |-> <<>>],
                 [kind |-> "str", items |-> <<>>],
                 [kind |-> "str", items |-> <<"BOOST">>],
                 [kind |-> "list", items |-> <<>>],
                 [kind |-> "list", items |-> <<"BOOST">>]}
MCStores == {"SQLITE3", "SQLITE"}
MCRoots == {"", "/usr/local"}
=============================================================================
