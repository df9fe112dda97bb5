------------------------------ MODULE Layouts ------------------------------
(***************************************************************************)
(* What the clients that encode by hand and the programs must agree on:    *)
(* the layout of account data, event data and instruction arguments, and   *)
(* the order, signatures and write locks of an instruction's accounts.     *)
(*                                                                         *)
(* A layout is a sequence of fields.  Data written in one layout and read  *)
(* in another gives a field's value exactly when the reader takes the same *)
(* bytes and reads them as the same kind of number.                        *)
(***************************************************************************)
EXTENDS Integers, Sequences

Field(name, kind) == [name |-> name, slot |-> 0, kind |-> kind]

\* A fixed array: one field for each of its entries.
Entries(name, n, kind) ==
  [i \in 1..n |-> [name |-> name, slot |-> i - 1, kind |-> kind]]

\* Bytes of each kind, in Borsh and in a zero-copy account without padding.
Bytes == [pubkey |-> 32, bytes32 |-> 32, bytes64 |-> 64, bytes256 |-> 256, u128 |-> 16,
          u64 |-> 8, i64 |-> 8, u32 |-> 4, u16 |-> 2, u8 |-> 1, bool |-> 1]

\* Anchor's discriminator, which every reader skips.
DISCRIMINATOR == 8

Offsets(layout) ==
  LET end[i \in 0..Len(layout)] ==
        IF i = 0 THEN DISCRIMINATOR ELSE end[i - 1] + Bytes[layout[i].kind]
  IN  [i \in 1..Len(layout) |-> end[i - 1]]

\* For each field of the reader, the fields of the writer it takes: none when
\* the bytes it reads are not one field's.
Taken(writer, reader) ==
  LET w == Offsets(writer)
      r == Offsets(reader)
  IN  [j \in 1..Len(reader) |->
         {i \in 1..Len(writer) :
            w[i] = r[j] /\ writer[i].kind = reader[j].kind}]

\* The names under which the writer keeps what the reader calls `name`, with
\* the entry of an array.
Sources(writer, reader) ==
  LET taken == Taken(writer, reader)
  IN  [name \in {reader[j].name : j \in DOMAIN reader} |->
         {<<reader[j].slot, writer[i].name, writer[i].slot>> :
            <<i, j>> \in {p \in (DOMAIN writer) \X (DOMAIN reader) :
                            reader[p[2]].name = name /\ p[1] \in taken[p[2]]}}]

-----------------------------------------------------------------------------
(* Accounts of an instruction.  Addresses are tuples: the seeds of derived *)
(* addresses, a name for the others.                                       *)

Account(key, signer, writable) ==
  [key |-> key, signer |-> signer, writable |-> writable]

ReadOnly(key) == Account(key, FALSE, FALSE)
Writable(key) == Account(key, FALSE, TRUE)
Payer(key)    == Account(key, TRUE, TRUE)

SystemProgram == ReadOnly(<<"system_program">>)
TokenProgram  == ReadOnly(<<"token_program">>)

\* Anchor takes the accounts of a call by position, checks each against its
\* constraints, and decodes the arguments from the rest of the data.
Accepted(instruction, context) ==
  /\ instruction.args = context.args
  /\ Len(instruction.keys) >= Len(context.keys)
  /\ \A i \in 1..Len(context.keys) :
       LET given == instruction.keys[i]
           asked == context.keys[i]
       IN  /\ given.key = asked.key
           /\ asked.signer => given.signer
           /\ asked.writable => given.writable
=============================================================================
