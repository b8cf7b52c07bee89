---------------------------- MODULE MCImpactGate ----------------------------
(***************************************************************************)
(* Instances of ImpactGate: a package with a submodule, a user of it, and  *)
(* two tests.                                                              *)
(***************************************************************************)
EXTENDS ImpactGate, TLC

MCFiles == {"core", "user", "pkg", "test_a", "test_b"}
MCTests == {"test_a", "test_b"}
MCSymbols == [f \in MCFiles |-> CASE f = "core" -> {"c"}
                                  [] f = "user" -> {"u", "v"}
                                  [] OTHER      -> {}]
MCSubmodule == <<"pkg", "core">> :> "core" @@ <<"ns", "user">> :> "user"
MCPackages == [f \in MCFiles |-> IF f = "core" THEN {"pkg"} ELSE {}]

(* A chain core <- user <- test_a by different symbols, a cycle between    *)
(* core and user, imports of the package, of its submodule by the package  *)
(* and past it, and of a name that is the name of no file.                 *)
MCImports ==
  {<<"user", "core", "c">>, <<"core", "user", "u">>, <<"test_a", "user", "v">>,
   <<"user", "pkg", "core">>, <<"test_b", "pkg", Module>>,
   <<"test_a", "core", Module>>, <<"test_b", "ns", "user">>}
MCMentions == {<<"test_a", "core">>, <<"test_b", "pkg">>}

MCChanges == {{}, {"core"}, {"pkg"}, {"core", "pkg"}, {"user", "pkg"},
              {"core", "test_b"}, {"test_a", "test_b"}}

Sources(S) == [f \in MCFiles |-> IF f \in MCTests THEN S ELSE {"ok"}]
MCFates == Sources({"ok", "gone", "binary"})
=============================================================================
