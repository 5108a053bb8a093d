----------------------------- MODULE FileDemo -----------------------------
(***************************************************************************)
(* src/fileIO/file.c: one thread writes a 27-character text, reads it back *)
(* into char sent[28] and prints it with %s, reads again after fseek 11,   *)
(* writes two struct bio records and reads back the last one after         *)
(* fseek(-28, SEEK_END).  Each block opens, uses and closes one FILE*; an  *)
(* fopen returning NULL ends the program with exit(3).                     *)
(*                                                                         *)
(* A byte is a token: <<"txt", i>> is the i-th character of the text,      *)
(* <<r, i>> the i-th byte of record r, NUL the zero byte and Undef a byte  *)
(* of automatic storage never written, which may hold zero or not.  stdio  *)
(* buffers the writes and fclose flushes them; with AllowIoFailure the     *)
(* flush may stop short (a full disk) and an fopen may fail.  The code     *)
(* checks no result but fopen's.  A print is recorded only as whether it   *)
(* read past the end of its array.                                          *)
(***************************************************************************)
EXTENDS Naturals, SequencesExt

CONSTANTS
    AllowIoFailure  \* whether fopen and the flush in fclose may fail

NUL   == <<"nul", 0>>
Undef == <<"undef", 0>>

TextLen   == 27   \* "hbd vijay suriya shanmugam!"
SentLen   == 28   \* char sent[28]
SizeofBio == 28   \* char name[20]; int age; float height: no padding
NameLen   == ("vijay" :> 5) @@ ("suriya" :> 6)

Text == [i \in 1..TextLen |-> <<"txt", i>>]

(* A struct bio as stored by fwrite: the name, zero-filled to 20 bytes by   *)
(* the initializer, then age and height.                                    *)
Encode(r) == [i \in 1..SizeofBio |-> IF NameLen[r] < i /\ i <= 20 THEN NUL ELSE <<r, i>>]

VARIABLES
    pc,      \* the block the program is in, "done" or "exit"
    disk,    \* file name -> its bytes
    sent,    \* char sent[28]
    vijay2,  \* struct bio vijay2, as 28 bytes
    out      \* for each printf("%s"), whether it read past its array

vars == <<pc, disk, sent, vijay2, out>>

(* The bytes a flush of n buffered bytes writes. *)
Flushed(n) == IF AllowIoFailure THEN 0..n ELSE {n}

OpenFails == IF AllowIoFailure THEN {TRUE, FALSE} ELSE {FALSE}

(* fread(buf, n, 1, f) at offset pos: the bytes there, at most n. *)
FreadBytes(file, pos, n) ==
    IF pos >= Len(file) THEN <<>> ELSE SubSeq(file, pos + 1, Min({pos + n, Len(file)}))

(* glibc copies the bytes it read and leaves the rest of the object alone. *)
ReadInto(buf, bytes) == [i \in 1..Len(buf) |-> IF i <= Len(bytes) THEN bytes[i] ELSE buf[i]]

(* printf("%s", buf) stops at the first zero byte; an Undef byte may be   *)
(* that zero.  With no byte that is certainly zero it may run past the     *)
(* end of the array.  The set of "did it run past" outcomes.                *)
PrintOverruns(buf) ==
    LET mayStop  == \E j \in 1..Len(buf) : buf[j] \in {NUL, Undef}
        mustStop == \E j \in 1..Len(buf) : buf[j] = NUL
    IN  {over \in BOOLEAN : (over => ~mustStop) /\ (~over => mayStop)}

(* fseek(f, -28, SEEK_END), hard-coding sizeof(struct bio); a target before *)
(* the start fails with EINVAL and leaves the offset at 0.                  *)
(* A variant seeking back 27 bytes, one short of sizeof(struct bio). *)
SeekEndTargetOffByOne(len) == IF len - 27 >= 0 THEN len - 27 ELSE 0
SeekEndTarget(len) == IF len - 28 >= 0 THEN len - 28 ELSE 0

Init ==
    /\ pc = "writeText"
    /\ disk = [f \in {"vijay.txt", "struct.bin"} |-> <<>>]
    /\ sent = [i \in 1..SentLen |-> Undef]
    /\ vijay2 = [i \in 1..SizeofBio |-> Undef]
    /\ out = <<>>

Exit == pc' = "exit" /\ UNCHANGED <<disk, sent, vijay2, out>>

(* fopen("./vijay.txt", "w"), fprintf the text, fclose. *)
WriteText ==
    /\ pc = "writeText"
    /\ \E fail \in OpenFails :
         IF fail THEN Exit
         ELSE \E k \in Flushed(TextLen) :
                /\ disk' = [disk EXCEPT !["vijay.txt"] = SubSeq(Text, 1, k)]
                /\ pc' = "readText"
                /\ UNCHANGED <<sent, vijay2, out>>

(* fopen("./vijay.txt", "r") at offset 0, or after fseek(f, 11, SEEK_SET); *)
(* fread(&sent, 28, 1, f); printf the string; fclose.                      *)
ReadText(at, offset, next) ==
    /\ pc = at
    /\ \E fail \in OpenFails :
         IF fail THEN Exit
         ELSE LET buf == ReadInto(sent, FreadBytes(disk["vijay.txt"], offset, SentLen))
              IN  \E p \in PrintOverruns(buf) :
                    /\ sent' = buf
                    /\ out' = Append(out, p)
                    /\ pc' = next
                    /\ UNCHANGED <<disk, vijay2>>

(* fopen("./struct.bin", "w+"), fwrite vijay then suriya, fclose. *)
WriteStructs ==
    /\ pc = "writeStructs"
    /\ \E fail \in OpenFails :
         IF fail THEN Exit
         ELSE LET bytes == Encode("vijay") \o Encode("suriya")
              IN  \E k \in Flushed(Len(bytes)) :
                    /\ disk' = [disk EXCEPT !["struct.bin"] = SubSeq(bytes, 1, k)]
                    /\ pc' = "readStruct"
                    /\ UNCHANGED <<sent, vijay2, out>>

(* fopen("./struct.bin", "r"), fseek(f, -28, SEEK_END), fread(&vijay2,    *)
(* sizeof, 1, f), printf the name with %s, fclose.                          *)
ReadLastStruct ==
    /\ pc = "readStruct"
    /\ \E fail \in OpenFails :
         IF fail THEN Exit
         ELSE LET file  == disk["struct.bin"]
                  rec  == ReadInto(vijay2, FreadBytes(file, SeekEndTarget(Len(file)), SizeofBio))
              IN  \E p \in PrintOverruns(SubSeq(rec, 1, 20)) :
                    /\ vijay2' = rec
                    /\ out' = Append(out, p)
                    /\ pc' = "done"
                    /\ UNCHANGED <<disk, sent>>

Next ==
    \/ WriteText
    \/ ReadText("readText", 0, "seekText")
    \/ ReadText("seekText", 11, "writeStructs")
    \/ WriteStructs
    \/ ReadLastStruct

Spec == Init /\ [][Next]_vars

-----------------------------------------------------------------------------

(* The record printed at the end is the last one written, suriya, whenever *)
(* both records reached the file: the -28 of fseek must land on a record   *)
(* boundary, i.e. equal sizeof(struct bio).  SizeofBio is fixed at 28     *)
(* (no padding), so an ABI that pads the struct is not checked here.        *)
LastRecordReadBack ==
    pc = "done" /\ Len(disk["struct.bin"]) = 2 * SizeofBio => vijay2 = Encode("suriya")

(* No printf("%s") reads past the end of its array: the bytes it is given  *)
(* hold a terminating zero.                                                 *)
NoOverread ==
    \A i \in DOMAIN out : ~out[i]

=============================================================================
