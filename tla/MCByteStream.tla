---------------------------- MODULE MCByteStream ----------------------------
(***************************************************************************)
(* An instance of ByteStream for TLC: bytes of two bits.                   *)
(***************************************************************************)
EXTENDS ByteStream

\* Integers whose bytes differ, the empty string and container, a string that is too
\* long for its length, and JSON.
Fields ==
  {[type |-> "u8", val |-> 2], [type |-> "u16", val |-> 6], [type |-> "u32", val |-> 27],
   [type |-> "u64", val |-> 6939], [type |-> "pair", val |-> <<1, 11>>],
   [type |-> "str", val |-> <<>>], [type |-> "str", val |-> <<3, 0, 1>>],
   [type |-> "str", val |-> [i \in 1..16 |-> 1]],
   [type |-> "str32", val |-> <<1, 2>>], [type |-> "vec", val |-> <<>>], [type |-> "vec", val |-> <<9, 2>>],
   [type |-> "json", val |-> <<>>], [type |-> "json", val |-> <<1, 3>>]}
=============================================================================
