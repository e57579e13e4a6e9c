---------------------------- MODULE MCTomlTables ----------------------------
(***************************************************************************)
(* Documents for TLC over two interchangeable keys: as long as few arrays  *)
(* have been made both keys are in use, and beyond that only one, which is *)
(* enough for an array of tables within the second element of another.     *)
(***************************************************************************)
EXTENDS TomlTables, TLC

CONSTANT BothKeys   \* bound: arrays made while both keys are in use

Symmetry == Permutations(Keys)

Used(k) == \/ \E n \in Node : mem[n].entry[k] # Absent
           \/ \E p \in DOMAIN tags : \E i \in DOMAIN p : p[i] = k

OneKeyBeyond ==
    Len(mem) <= BothKeys \/ Cardinality({k \in Keys : Used(k)}) <= 1

=============================================================================
