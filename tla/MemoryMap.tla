------------------------------ MODULE MemoryMap -----------------------------
(***************************************************************************)
(* The memory bus (src/src/cpu/memory.c) in front of a cartridge with a    *)
(* controller: what a store of the Game Boy program reaches, as opposed to *)
(* the direct calls of write_cartridge in Cartridge.  The external RAM,    *)
(* 0xA000-0xBFFF, is part of the flat g_cpu.memory like work RAM.          *)
(***************************************************************************)
EXTENDS Cartridge, Bus

VARIABLE memory   \* g_cpu.memory, at the addresses of Addresses

mapVars == <<vars, memory>>

MapInit == Init /\ memory = [a \in Addresses |-> 0]

\* write_memory; a store into an I/O port is left to GameBoy.
WriteMemory(address, data) ==
  \/ /\ Device(address) = "cartridge"
     /\ WriteCartridge(address, data)
     /\ UNCHANGED memory
  \/ /\ Device(address) = "memory"
     /\ memory' = [memory EXCEPT ![address] = data]
     /\ UNCHANGED vars

BusWrite ==
  /\ status = "ready"
  /\ \E store \in Stores[Chip(type)] :
       store[1] \in Addresses /\ WriteMemory(store[1], store[2])

MapNext ==
  \/ (Load \/ Tick) /\ UNCHANGED memory
  \/ BusWrite

MapSpec == MapInit /\ [][MapNext]_mapVars

(***************************************************************************)
(* memory.h:83-84: when access is disabled, all writes to the external RAM *)
(* are ignored (memory.c:26-29).                                           *)
(***************************************************************************)
ClosedRamIsKept ==
  [][status = "ready" /\ ~ram_access =>
       \A a \in Addresses : Area(a) = "ram" => memory'[a] = memory[a]]_mapVars
=============================================================================
