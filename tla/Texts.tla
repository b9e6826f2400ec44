-------------------------------- MODULE Texts --------------------------------
(***************************************************************************)
(* A text is a sequence of symbols: characters, or names whose letters     *)
(* nobody looks at.  NoText is the NULL pointer.                           *)
(***************************************************************************)
EXTENDS Sequences

CONSTANTS Symbols, NoText

ASSUME TextsAssumption == NoText \notin Symbols \union Seq(Symbols)

Text == Seq(Symbols)
MaybeText == Text \union {NoText}

\* Texts without the signs.
Without(signs) == Seq(Symbols \ signs)
===============================================================================
