------------------------------- MODULE Memory -------------------------------
(***************************************************************************)
(* What pano remembers of those it talks to: the hosts that refused, the   *)
(* devices, the bodies (Tables), the messages of a WebSocket (Frames), and *)
(* where it is open to them (Mobile).  They share no state, so a behaviour *)
(* is of one of them, memory, and the others stay as they began.           *)
(***************************************************************************)
EXTENDS Tables, Frames, Mobile

VARIABLE memory

MemoryStart == TablesInit /\ FramesInit /\ MobileInit

MemoryInit == memory \in {"rejected", "devices", "blobs", "frames", "mobile"} /\ MemoryStart

MemoryNext ==
  /\ UNCHANGED memory
  /\ \/ memory = "rejected" /\ RejectedNext /\ UNCHANGED <<deviceTable, MemBlobs, splice, mobile>>
     \/ memory = "devices" /\ DevicesNext /\ UNCHANGED <<hostTable, MemBlobs, splice, mobile>>
     \/ memory = "blobs" /\ BlobsNext /\ UNCHANGED <<hostTable, deviceTable, splice, mobile>>
     \/ memory = "frames" /\ FramesNext /\ UNCHANGED <<tables, mobile>>
     \/ memory = "mobile" /\ MobileNext /\ UNCHANGED <<tables, splice>>

MemorySpec == MemoryInit /\ [][MemoryNext]_<<memory, tables, splice, mobile>>

-----------------------------------------------------------------------------
\* What is remembered is what happened: of hosts and devices since they were last
\* lost, the bodies used last, each WebSocket message that has arrived, and where
\* the proxy is open to the network (proxy decrypt.go, devices.go, websocket.go,
\* server.go; store blob.go; daemon mobile.go).
MemoryTrue == RejectedTrue /\ DevicesTrue /\ BlobsTrue /\ FramesTrue /\ MobileTrue
=============================================================================
