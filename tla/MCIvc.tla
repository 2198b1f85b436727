------------------------------- MODULE MCIvc -------------------------------
(***************************************************************************)
(* IvcChannel for model checking.                                          *)
(***************************************************************************)
EXTENDS IvcChannel, TLC

\* The contents of frames are only copied and compared.
DataSymmetry == Permutations(Data)
=============================================================================
