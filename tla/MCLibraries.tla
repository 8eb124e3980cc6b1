---------------------------- MODULE MCLibraries ----------------------------
(***************************************************************************)
(* The pure libraries, called one at a time: a behaviour is a caller that  *)
(* takes a library, makes any call of the sets of the modules below and    *)
(* comes back.  Each property relates what a library computes to what it   *)
(* is to mean.                                                             *)
(***************************************************************************)
EXTENDS MCSequencing, MCPdpi, MCAppDb, MCPacketlib, MCFuzzer, MCSymbolic

Libraries == {"sequencing", "pdpi", "pd", "program", "app_db", "packetlib", "p4info", "fuzzer",
              "symbolic"}

Take == call = Idle /\ \E l \in Libraries : call' = [op |-> l]

Next ==
  \/ Take
  \/ call.op = "sequencing" /\ (CheckReferences \/ SequenceUpdates \/ SortEntities \/ CollectGarbage \/ CallSession)
  \/ call.op = "pdpi" /\ (TranslatePiMatch \/ TranslateIrMatch \/ TranslateUint \/ TranslatePiEntity \/ TranslatePiPacket \/ TranslateStatus)
  \/ call.op = "pd" /\ (TranslatePiToPd \/ TranslatePd \/ TranslateMessage)
  \/ call.op = "program" /\ (ReadP4Info \/ UniteP4Infos)
  \/ call.op = "app_db" /\ (WriteAndReadBack \/ WriteRows \/ VerifyTables \/ ReadCache)
  \/ call.op = "packetlib" /\ (BuildPacket \/ BuildLongFrame \/ BuildTunnel \/ ParseBytes)
  \/ call.op = "p4info" /\ (PushConfig \/ PushCapacities)
  \/ call.op = "fuzzer" /\ (NewState \/ SendRequest \/ StartFuzzing \/ Bits)
  \/ call.op = "symbolic" /\ (ExecuteSymbolically \/ StartSynthesizer \/ CoverPaths)
  \/ UpdateState \/ ResetState \/ FuzzOneMore
  \/ SynthesizeNext
  \/ Return

Spec == call = Idle /\ [][Next]_call
=============================================================================
