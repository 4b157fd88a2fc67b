--------------------------- MODULE MCProvisioning ---------------------------
(* Small instances of the provisioning of extensions for TLC.              *)
EXTENDS Provisioning, TLC

\* Extensions, and calls, differ in their names only.
Symmetry == Permutations(Exts) \cup Permutations(Calls)

\* The range of sed as the scan of the file it is: SedDelete keeps what it prints.
Scan(lines, e) ==
    LET Line(state, line) ==
          IF state.deleting THEN [state EXCEPT !.deleting = line # Blank]
          ELSE IF HasHeader(line, e) THEN [state EXCEPT !.deleting = TRUE]
          ELSE [state EXCEPT !.out = Append(@, line)]
    IN FoldLeft(Line, [out |-> <<>>, deleting |-> FALSE], lines).out

ASSUME SedIsTheScan ==
    \A e \in Exts : \A n \in 0..5 : \A lines \in [1..n -> Lines] :
        SedDelete(lines, e) = Scan(lines, e)
=============================================================================
