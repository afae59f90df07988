----------------------------- MODULE MCManifest -----------------------------
(***************************************************************************)
(* ogg and vorbis, which is built against ogg; openssl, which only the     *)
(* system has; two sources, of which utfcpp may be the system's; and a     *)
(* binary tool.  In and out of order, in every mode, twice in one manifest *)
(* and with every kind of override.                                        *)
(***************************************************************************)
EXTENDS Manifest

MCDependsOf == [n \in {"ogg", "vorbis", "openssl"} |-> IF n = "vorbis" THEN {"ogg"} ELSE {}]

CONSTANTS r1, r2

(* ogg and the tool change together; vorbis keeps its recipe. *)
MCCheckouts == {[n \in Libraries \cup Tools |-> IF n \in {"ogg", "tool"} THEN r ELSE r1] :
                    r \in {r1, r2}}

MCHosts == {{"openssl"}, {"openssl", "ogg", "tool"}}

Require(name)      == [name |-> name, arg |-> None]
RequireAs(name, a) == [name |-> name, arg |-> a]

Default == [n \in Names \cup {"all"} |-> None]
All(mode) == [Default EXCEPT !.all = mode]

Ordered   == <<Require("ogg"), Require("vorbis")>>
Unordered == <<Require("vorbis"), Require("ogg")>>
Twice     == <<RequireAs("ogg", "REBUILD"), RequireAs("openssl", "SYSTEM"), Require("ogg")>>

LibraryApp ==
    [manifest : {Ordered, Unordered}, override : {Default, All("rebuild")}]
      \cup [manifest : {Ordered},
            override : {[All("rebuild") EXCEPT !.ogg = o] : o \in {"prebuilt", "system", "other"}}]
      \cup [manifest : {Twice}, override : {Default, [All("rebuild") EXCEPT !.ogg = "none"]}]

ToolApp ==
    [manifest : {<<Require("lv2"), Require("utfcpp"), Require("tool")>>,
                 <<RequireAs("lv2", "SYSTEM"), RequireAs("tool", "SYSTEM"), RequireAs("utfcpp", "REBUILD")>>},
     override : {[All(a) EXCEPT !.tool = o] : a \in {None, "system"}, o \in {None, "rebuild"}}]

MCApplications == {LibraryApp, ToolApp}
=============================================================================
