------------------------- MODULE MCRequestPipeline -------------------------
(* Small instances of RequestPipeline for TLC: one route of each kind.     *)
EXTENDS RequestPipeline

CONSTANTS ann, bob, write, audit_read, x1

Plain == [mutating |-> FALSE, public |-> FALSE, stub |-> FALSE, export |-> FALSE,
          needs |-> {}]
Login == [Plain EXCEPT !.mutating = TRUE, !.public = TRUE]
Change == [Plain EXCEPT !.mutating = TRUE, !.needs = {write}]
CappedStub == [Plain EXCEPT !.mutating = TRUE, !.stub = TRUE, !.needs = {Capped}]
Export == [Plain EXCEPT !.export = TRUE, !.needs = {audit_read}]

AllRoutes == {Plain, Login, Change, CappedStub, Export}
FewRoutes == {Change, Export}

Ann == [sub |-> ann, perms |-> {write, Adjust, audit_read}]
Bob == [sub |-> bob, perms |-> {}]
Team == {Ann, Bob}
AnnOnly == {Ann}
=============================================================================
