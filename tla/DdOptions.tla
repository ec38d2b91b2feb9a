------------------------------- MODULE DdOptions ------------------------------
(* The command line of dd, testcode/android/dd/dd.c: jcl() and what it calls.   *)
(* An operand is a record of its name and its value; the value of conv is the   *)
(* sequence of its conversions.  Names of files are left out.                   *)
EXTENDS Integers, Sequences

(* args: the flags that must not be set yet when an operand is met.             *)
OperandNoset ==
  [bs |-> {"BS", "IBS", "OBS", "OSYNC"}, cbs |-> {"CBS"}, conv |-> {},
   count |-> {"COUNT"}, files |-> {"FILES"}, ibs |-> {"BS", "IBS"}, if |-> {"IF"},
   obs |-> {"BS", "OBS"}, of |-> {"OF"}, progress |-> {}, seek |-> {"SEEK"},
   skip |-> {"SKIP"}]

(* args: the flag an operand sets.                                              *)
OperandFlag ==
  [bs |-> {"BS"}, cbs |-> {"CBS"}, conv |-> {}, count |-> {"COUNT"},
   files |-> {"FILES"}, ibs |-> {"IBS"}, if |-> {"IF"}, obs |-> {"OBS"}, of |-> {"OF"},
   progress |-> {}, seek |-> {"SEEK"}, skip |-> {"SKIP"}]

(* clist: the conversions and the flags that must not be set yet.  The swapping *)
(* that swab asks for is commented out in dd_in: it only turns bs off.          *)
ConvNoset ==
  [BLOCK |-> {"UNBLOCK"}, FDATASYNC |-> {}, NOERROR |-> {}, NOTRUNC |-> {},
   OSYNC |-> {"BS"}, SPARSE |-> {}, SWAB |-> {}, SYNC |-> {}, UNBLOCK |-> {"BLOCK"}]

Default == [status |-> "ok", flags |-> {}, ibs |-> 512, obs |-> 512, cbs |-> 0,
            count |-> 0, files |-> 1, skip |-> 0, seek |-> 0]

Flags == {"BS", "CBS", "COUNT", "FILES", "IBS", "IF", "OBS", "OF", "SEEK", "SKIP"}
         \cup DOMAIN ConvNoset

Options ==
  [status : {"ok", "refused", "ended"}, flags : SUBSET Flags, ibs : Nat, obs : Nat,
   cbs : Nat, count : Nat, files : Nat, skip : Nat, seek : Nat]

Refuse(opt) == [opt EXCEPT !.status = "refused"]

(* One pass of f_conv's loop.                                                   *)
AddConversion(opt, conv) ==
  IF opt.status # "ok" THEN opt
  ELSE IF conv \notin DOMAIN ConvNoset THEN Refuse(opt)
  ELSE IF opt.flags \cap ConvNoset[conv] # {} THEN Refuse(opt)
  ELSE [opt EXCEPT !.flags = @ \cup {conv}]

f_conv(opt, convs) ==
  LET after[k \in 0..Len(convs)] ==
        IF k = 0 THEN opt ELSE AddConversion(after[k - 1], convs[k])
  IN after[Len(convs)]

(* f_bs, f_cbs, f_count, ...: the value is stored unchecked; a count of 0 ends   *)
(* the program at once, as does a number of files of 0.                         *)
Store(opt, arg) ==
  CASE arg.name = "bs"    -> [opt EXCEPT !.ibs = arg.value, !.obs = arg.value]
    [] arg.name = "ibs"   -> [opt EXCEPT !.ibs = arg.value]
    [] arg.name = "obs"   -> [opt EXCEPT !.obs = arg.value]
    [] arg.name = "cbs"   -> [opt EXCEPT !.cbs = arg.value]
    [] arg.name = "skip"  -> [opt EXCEPT !.skip = arg.value]
    [] arg.name = "seek"  -> [opt EXCEPT !.seek = arg.value]
    [] arg.name = "conv"  -> f_conv(opt, arg.value)
    [] arg.name = "count" -> [opt EXCEPT !.count = arg.value,
                                         !.status = IF arg.value = 0 THEN "ended" ELSE "ok"]
    [] arg.name = "files" -> [opt EXCEPT !.files = arg.value,
                                         !.status = IF arg.value = 0 THEN "ended" ELSE "ok"]
    [] OTHER -> opt

AddOperand(opt, arg) ==
  IF opt.status # "ok" THEN opt
  ELSE IF arg.name \notin DOMAIN OperandNoset THEN Refuse(opt)
  ELSE IF opt.flags \cap OperandNoset[arg.name] # {} THEN Refuse(opt)
  ELSE Store([opt EXCEPT !.flags = @ \cup OperandFlag[arg.name]], arg)

(* The final checks of jcl: bs loses its meaning of unbuffered copying with any *)
(* other conversion than noerror, notrunc, sync and fdatasync; records need cbs *)
(* and cbs needs records.                                                       *)
CheckOptions(opt) ==
  LET buffered == opt.flags \cap {"BLOCK", "UNBLOCK", "SWAB", "OSYNC", "SPARSE"} # {}
      flags    == IF "BS" \in opt.flags /\ buffered
                  THEN (opt.flags \ {"BS"}) \cup {"IBS", "OBS"} ELSE opt.flags
      records  == flags \cap {"BLOCK", "UNBLOCK"} # {}
  IN IF opt.status = "ok" /\ (records <=> "CBS" \in flags)
     THEN [opt EXCEPT !.flags = flags]
     ELSE IF opt.status = "ok" THEN Refuse(opt) ELSE opt

ParseOperands(args) ==
  LET after[k \in 0..Len(args)] ==
        IF k = 0 THEN Default ELSE AddOperand(after[k - 1], args[k])
  IN after[Len(args)]

jcl(args) == CheckOptions(ParseOperands(args))

(* The conversion function chosen.                                              *)
cfunc(opt) == IF "BLOCK" \in opt.flags THEN "block"
              ELSE IF "UNBLOCK" \in opt.flags THEN "unblock" ELSE "def"
===============================================================================
