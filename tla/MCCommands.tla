----------------------------- MODULE MCCommands -----------------------------
(* Commands for TLC: a project with a .git and links in it, the names of two *)
(* images' VMs and words of up to two symbols, quotes and spaces among them. *)
EXTENDS Commands

MCBegins == [w \in Typed |-> CASE w \in {"rust", "ru"} -> {"rust-1", "rust-2"}
                               [] w = "win"            -> {"win-1"}
                               [] OTHER                -> {w} \cap VmNames]

MCPaired == {"N", "=", " ", "'", "$", "&&"}
MCSymbols == MCPaired \cup {"\\", ";", ">/dev/null 2>&1 &"}
MCWords == {<<>>, <<"N", "N", "=">>} \cup {<<a>> : a \in MCSymbols} \cup (MCPaired \X MCPaired)
MCValues == {<<>>, <<"'">>, <<"$", "'">>}

\* The directory project has .git, sub, main and link, and sub has lib and sublink
MCHolder == [e \in {".git", "sub", "main", "id", "lib", "link", "sublink"} |->
               CASE e \in {".git", "sub", "main", "link"} -> "project"
                 [] e = "id"                              -> ".git"
                 [] OTHER                                 -> "sub"]
MCAbove == [e \in DOMAIN MCHolder \cup {"project"} |->
              CASE e = "project"             -> {e}
                [] MCHolder[e] = "project"   -> {e, "project"}
                [] OTHER                     -> {e, MCHolder[e], "project"}]

\* A file is ignored where it is, or by the path that a link gives it
MCIgnorable == {<<"project", "sub">>, <<"project", "main">>, <<"project", "link">>,
                <<"project", "sub", "lib">>, <<"project", "sub", "sublink">>,
                <<"project", "link", "lib">>}
=============================================================================
