------------------------------ MODULE MCConsole ------------------------------
(* Console for TLC: one database beside the root tenant, one other client.   *)
EXTENDS Console

\* The other client provisions, deletes and reads the database, and makes its
\* root timeline and a branch of its restore point.
MCAsked ==
    {TenantRequest(o, "db") : o \in {"tenant", "create_tenant", "delete_tenant", "list"}}
      \union {CreateRequest("db", Root), BranchRequest("db", "b2", "b1", 1)}
=============================================================================
