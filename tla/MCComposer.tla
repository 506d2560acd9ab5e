------------------------------ MODULE MCComposer -------------------------------
(* The composer with one content per generation.  The bounds on generations, *)
(* requests and flushes are never met: MaxOperations bounds the user's       *)
(* steps, and what follows a step is finite.                                 *)
EXTENDS Composer

MCContents == 1 .. MaxGeneration
================================================================================
