------------------------------ MODULE MCStore ------------------------------
(* The instance of Store that TLC checks: two threads of one process and one *)
(* of another, every entry and image, and those that meet in one place.      *)
EXTENDS Store

MCProcess(t) == IF t = "c1" THEN "c" ELSE "p"
File(file, path) == [file |-> file, path |-> path]
With(process, entry, image, resources) ==
  [process |-> process, entry |-> entry, image |-> image, resources |-> resources]
Asks(process, entry, image) == With(process, entry, image, {})
MCScripts ==
  { <<Asks("p", "frozen", "named"), Asks("p", "universal", "none"), Asks("p", "tree", "sif")>>,
    <<Asks("p", "tree", "none"), Asks("c", "tree", "sif")>>,
    <<Asks("p", "capture", "none"), Asks("p", "frozen", "none"), Asks("c", "capture", "none")>>,
    <<Asks("p", "frozen", "daemon"), Asks("c", "tree", "daemon")>>,
    <<Asks("p", "python", "built"), Asks("p", "frozen", "daemon")>>,
    <<With("p", "python", "none", {File("data", <<"data">>), File("more", <<"more">>), File("tool", <<"bin", "more">>),
                                   File("start", <<"entrypoint.sh">>)}),
      With("c", "pex", "none", {File("more", <<"bin", "more">>)})>>,
    <<With("p", "python", "none", {File("other", <<"data">>)}), With("p", "pex", "none", {})>>,
    <<Asks("p", "input", "none"), Asks("c", "input", "none")>>,
    <<Asks("p", "fetch", "none"), Asks("c", "fetch", "none")>>,
    <<Asks("p", "fetchdir", "none"), Asks("p", "fetchdir", "none"), Asks("c", "fetchdir", "none")>> }
===========================================================================
