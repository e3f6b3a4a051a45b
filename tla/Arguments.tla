------------------------------- MODULE Arguments -------------------------------
(***************************************************************************)
(* internal/parse: what every Prepare makes of the argument list.  An      *)
(* argument is a word; NameOf gives, for the words of three characters and *)
(* more that begin with "--", what follows the dashes.                     *)
(***************************************************************************)
EXTENDS Integers, Sequences

CONSTANT NameOf

FlagAt(args) == {i \in 1 .. Len(args) - 1 : args[i] \in DOMAIN NameOf}
Named(args, n) == {i \in FlagAt(args) : NameOf[args[i]] = n}
\* A later flag overwrites an earlier one of its name.
LastNamed(args, n) ==
  CHOOSE i \in Named(args, n) : \A j \in Named(args, n) : j <= i

\* The value of a flag is the next word, whatever it is.
TransInputFlagsToMap(args) ==
  [n \in {NameOf[args[i]] : i \in FlagAt(args)} |-> args[LastNamed(args, n) + 1]]
================================================================================
