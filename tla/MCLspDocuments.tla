--------------------------- MODULE MCLspDocuments ---------------------------
EXTENDS LspDocuments, TLC

CONSTANTS f1, f2, pkg, dir

\* Two files of one directory, and two workspaces: dir is what the driver finds
\* for a file of that directory, pkg is a package among the client's folders.
MCFiles == {f1, f2}
MCWorkSpaces == {pkg, dir}
MCLookup == [f \in MCFiles |-> {dir}]

\* A directory in which the driver finds nothing for f2, as for a file of
\* another language.
MCLookupSome == (f1 :> {dir}) @@ (f2 :> {})

\* The package has none of the two files.
MCDisjoint == (pkg :> {}) @@ (dir :> {f1, f2})

\* The package contains f1 too.
MCOverlap == (pkg :> {f1}) @@ (dir :> {f1, f2})
=============================================================================
