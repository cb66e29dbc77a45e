----------------------------- MODULE ImageFile -----------------------------
(***************************************************************************)
(* What the reprogramming tool makes of the file it is given: the way from *)
(* the file's name to a raw binary file (rbf) that can be sent to the      *)
(* FPGA, and the places where it gives up.  Everything here happens before *)
(* the device is touched; HostSession has the steps that follow.           *)
(*                                                                         *)
(* An .aocx is a package with an .fpga.bin section, an .fpga.bin is a      *)
(* package with an rbf section, and the rbf goes through a temporary file. *)
(* The package reader is a library outside this repository.                *)
(***************************************************************************)

\* What can go wrong first, in the order of the code.
OfRbf   == {"rbf not readable"}
OfImage == {"no rbf section", "rbf not extracted"} \cup OfRbf
Loading == {"not readable", "read short", "not a package"}
OfBin   == Loading \cup OfImage
OfAocx  == Loading \cup {"no fpga.bin section", "section not read",
                         "section not a package"} \cup OfImage

\* map_filenames_to_aocx_and_rbf: the extension decides.
Obstacles == [rbf |-> OfRbf, aocx |-> OfAocx, bin |-> OfBin]
Known == DOMAIN Obstacles

Files == [ext : Known \cup {"other"}, obstacle : OfAocx \cup {"none"}]

\* The tool has an rbf in its hands.
HasImage(f) == f.ext \in Known /\ f.obstacle \notin Obstacles[f.ext]

\* The value of ret when it has not: 1, or, for a file whose type is not known,
\* what happens to be in the variable.
GivenUp(f) == IF f.ext \in Known THEN "failed" ELSE "unset"

=============================================================================
