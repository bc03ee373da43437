---------------------------- MODULE AxclFirmware ----------------------------
(***************************************************************************)
(* The firmware download of axcl_pcie_host.c: the host copies the image,   *)
(* chunk by chunk, through one DMA buffer, tells the card by registers in  *)
(* BAR 0 to fetch the chunk, and polls a status word.  Before the second   *)
(* file it may save the memory of a card that had crashed (sysdump), with  *)
(* the same buffer and the same status word, in the other direction.       *)
(*                                                                         *)
(* One load runs at a time: the init function loads card after card, and   *)
(* a BOOT holds ioctl_mutex.  The card is not part of the repository: it   *)
(* takes a command when it is through with the one before, moves the data, *)
(* reports, and may be arbitrarily slow at each, also after the host has   *)
(* stopped to wait.  The content of memory is the place in the image it    *)
(* came from; Dump and Junk stand for all else.                            *)
(***************************************************************************)
EXTENDS AxDevMap

CONSTANTS
  Chunks,    \* Chunks[n]: number of chunks of the n-th file of the image
  DumpSizes, \* sysdump_ctrl.size, in chunks
  MaxFails   \* bound: chunks that fail or that the host gives up

\* The image does not end in an empty file: that would leave the result of
\* the dump as the result of the load.
ASSUME FirmwareAssumption ==
  /\ Chunks \in Seq(Nat) /\ Chunks # <<>> /\ Chunks[Len(Chunks)] > 0
  /\ DumpSizes \subseteq Nat

VARIABLES
  load,     \* the load under way
  buf,      \* content of the DMA buffer, NoBuf when there is none
  boot,     \* the boot program of each card, its registers and its memory
  fails,    \* chunks that failed so far, for the bound
  lateDump  \* history: a dump was given up that the card may still write

fwVars == <<load, buf, boot, fails, lateDump>>

Files == 1..Len(Chunks)
Image == UNION {{<<n, k>> : k \in 1..Chunks[n]} : n \in Files}

Junk == <<0, 0>>
Dump == <<0, 1>>
NoBuf == <<>>

NoLoad == [pc |-> "none", card |-> None, file |-> 0, chunk |-> 0, left |-> 0, ok |-> TRUE]
NoCmd == [op |-> "none", at |-> <<0, 0>>]
\* A card after a reset: its boot program waits for the first command.  A card
\* without power ignores writes and reads as all ones.
Reset == [on |-> TRUE, cmd |-> NoCmd, busy |-> NoCmd, moved |-> FALSE, status |-> "none",
          started |-> FALSE, crashed |-> FALSE, mem |-> [p \in Image |-> Junk]]

FwInit ==
  /\ load = NoLoad /\ buf = NoBuf /\ lateDump = FALSE /\ fails = 0
  /\ boot = [d \in Cards |-> Reset]

-----------------------------------------------------------------------------
(* The card *)

CardTakes(d) ==
  /\ boot[d].busy = NoCmd /\ boot[d].cmd # NoCmd
  /\ boot' = [boot EXCEPT ![d].busy = boot[d].cmd, ![d].cmd = NoCmd, ![d].moved = FALSE]
  /\ UNCHANGED <<load, buf, fails, lateDump>>

CardMoves(d) ==
  /\ boot[d].busy # NoCmd /\ ~boot[d].moved
  /\ LET b == boot[d].busy IN
     IF b.op = "read"
     THEN /\ boot' = [boot EXCEPT ![d].mem[b.at] = buf, ![d].moved = TRUE]
          /\ UNCHANGED buf
     ELSE /\ buf' = IF buf = NoBuf THEN buf ELSE Dump
          /\ boot' = [boot EXCEPT ![d].moved = TRUE]
  /\ UNCHANGED <<load, fails, lateDump>>

CardReports(d) ==
  /\ boot[d].busy # NoCmd
  /\ \E status \in {boot[d].busy.op, "fail"} :
       /\ status # "fail" => boot[d].moved
       /\ boot' = [boot EXCEPT ![d].status = status, ![d].busy = NoCmd,
                                  ![d].moved = FALSE]
  /\ UNCHANGED <<load, buf, fails, lateDump>>

-----------------------------------------------------------------------------
(* The host: axcl_firmware_load and axcl_load_fwfile *)

LoadAt(pc) == load.pc = pc
LoadGoes(pc) == load' = [load EXCEPT !.pc = pc]
d0 == load.card

\* send_buf_alloc, free_buf_alloc
BufIs(content) == buf' = content

\* request_firmware and send_buf_alloc may fail.
LoadBegins(d) ==
  /\ LoadAt("none")
  /\ \/ load' = [NoLoad EXCEPT !.pc = "file", !.card = d, !.file = 1] /\ BufIs(Junk)
     \/ load' = [NoLoad EXCEPT !.pc = "done", !.card = d, !.ok = FALSE] /\ UNCHANGED buf
  /\ UNCHANGED <<fails, lateDump>>

\* What the load finds in sysdump_ctrl: whoever may write its proc files changes
\* both at any time, also between the cards of one init.
DumpEnabled == BOOLEAN
DumpSize == DumpSizes

\* The next file, or the end of the image: start_devices.
NextFile ==
  /\ LoadAt("file")
  /\ IF load.file \in Files
     THEN /\ \E debug \in DumpEnabled :
               load' = IF debug /\ load.file = 2 THEN [load EXCEPT !.pc = "dump"]
                       ELSE [load EXCEPT !.pc = "copy", !.chunk = 1]
          /\ UNCHANGED boot
     ELSE boot' = [boot EXCEPT ![d0].started = boot[d0].on] /\ LoadGoes("free")
  /\ UNCHANGED <<buf, fails, lateDump>>

\* memcpy to the buffer; an empty rest ends the file.
Copies ==
  /\ LoadAt("copy")
  /\ IF load.chunk <= Chunks[load.file]
     THEN buf' = <<load.file, load.chunk>> /\ LoadGoes("send")
     ELSE load' = [load EXCEPT !.pc = "file", !.file = @ + 1, !.chunk = 0] /\ UNCHANGED buf
  /\ UNCHANGED <<boot, fails, lateDump>>

Command(op) ==
  boot' = [boot EXCEPT ![d0].cmd = IF boot[d0].on THEN [op |-> op, at |-> <<load.file, load.chunk>>]
                                                  ELSE NoCmd]

\* axcl_boot_device and axcl_dump_data: the registers, the command last.
Sends ==
  /\ LoadAt("send") /\ Command("read") /\ LoadGoes("wait")
  /\ UNCHANGED <<buf, fails, lateDump>>

\* wait_device_recv_completion: a status is cleared whatever it says.  All
\* ones have every flag set and are success.
Succeeds(status) ==
  /\ boot[d0].status = status \/ ~boot[d0].on
  /\ boot' = [boot EXCEPT ![d0].status = "none"]
Answered(status) ==
  /\ boot[d0].status = status /\ boot[d0].on
  /\ boot' = [boot EXCEPT ![d0].status = "none"]

\* Another answer, or none in time; what the card still does, it does unheard.
NoSuccess(answers) ==
  /\ fails < MaxFails /\ fails' = fails + 1
  /\ \/ \E s \in answers : Answered(s)
     \/ boot[d0].status = "none" /\ boot[d0].on /\ UNCHANGED boot
  /\ lateDump' = (lateDump \/ "write" \in {boot[d0].cmd.op, boot[d0].busy.op})

ChunkDone ==
  /\ LoadAt("wait") /\ Succeeds("read")
  /\ load' = [load EXCEPT !.pc = "copy", !.chunk = @ + 1]
  /\ UNCHANGED <<buf, fails, lateDump>>
ChunkFails ==
  /\ LoadAt("wait") /\ NoSuccess({"write", "fail"})
  /\ load' = [load EXCEPT !.pc = "free", !.ok = FALSE]
  /\ UNCHANGED buf

\* The buffer is freed, and the result goes to the caller.
LoadEnds ==
  /\ LoadAt("free") /\ BufIs(NoBuf) /\ LoadGoes("done")
  /\ UNCHANGED <<boot, fails, lateDump>>

-----------------------------------------------------------------------------
(* axcl_device_sysdump; the load ignores how it ends *)

\* The boot reason is read and cleared; 0 needs no dump.  The file may fail.
DumpBegins ==
  /\ LoadAt("dump")
  /\ boot' = [boot EXCEPT ![d0].crashed = FALSE]
  /\ \/ load' = [load EXCEPT !.pc = "copy", !.chunk = 1]
     \/ /\ boot[d0].crashed \/ ~boot[d0].on
        /\ \E n \in DumpSize : load' = [load EXCEPT !.pc = "ask", !.left = n]
  /\ UNCHANGED <<buf, fails, lateDump>>

Asks ==
  /\ LoadAt("ask")
  /\ IF load.left = 0 THEN load' = [load EXCEPT !.pc = "copy", !.chunk = 1] /\ UNCHANGED boot
                      ELSE Command("write") /\ LoadGoes("save")
  /\ UNCHANGED <<buf, fails, lateDump>>

\* kernel_write of the chunk, which may fail and end the dump.
Saved ==
  /\ LoadAt("save") /\ Succeeds("write")
  /\ \/ load' = [load EXCEPT !.pc = "ask", !.left = @ - 1]
     \/ load' = [load EXCEPT !.pc = "copy", !.chunk = 1, !.left = 0]
  /\ UNCHANGED <<buf, fails, lateDump>>
DumpFails ==
  /\ LoadAt("save") /\ NoSuccess({"read", "fail"})
  /\ load' = [load EXCEPT !.pc = "copy", !.chunk = 1, !.left = 0]
  /\ UNCHANGED buf

Loading == NextFile \/ Copies \/ Sends \/ ChunkDone \/ ChunkFails \/ LoadEnds
           \/ DumpBegins \/ Asks \/ Saved \/ DumpFails
Card(d) == CardTakes(d) \/ CardMoves(d) \/ CardReports(d)
=============================================================================
