------------------------- MODULE PVEntriesAllocator -------------------------
(***************************************************************************)
(* PVEntriesAllocator (PVEntriesAllocator.hpp): extends the device by new, *)
(* empty clusters that are linked to one another.                          *)
(*                                                                         *)
(* A volume is a record: disk, the headers on the device by their offset;  *)
(* bins, the free lists of FreelistHelper; end, last and cluster, the      *)
(* allocator's device_end_, last_allocated_clusters_count_ (a double in    *)
(* the code, thousandths here) and cluster_size_.                          *)
(***************************************************************************)
EXTENDS PVLayout

CONSTANT MaxExtend    \* maximum_simultaneously_extend_pv_size_, in bytes

ASSUME MaxExtendAssumption == MaxExtend \in Nat

Milli == 1000

\* simultaneously_allocated_clusters_
Simultaneously(cluster) ==
  IF MaxExtend \div cluster > 1 THEN MaxExtend \div cluster ELSE 1

InitialLast(cluster) == Milli * Simultaneously(cluster)

\* last_allocated_clusters_count_ *= extend_factor_
Grown(last) == (last * 11) \div 10

\* the clusters written: whole rounds until the truncated count is reached
NewClusters(last, cluster) ==
  LET round == Simultaneously(cluster)
  IN  round * ((last \div Milli + round - 1) \div round)

ClusterOffsets(end, cluster, count) == {end + i * cluster : i \in 0 .. count - 1}

\* mutant: the first new cluster is linked to what would be one before it
LinkedBefore(first, end, cluster, offset) == offset - cluster

\* the link of the new cluster at an offset; first is the free entry the
\* caller passes, the head of the bin the new clusters go to
ClusterLink(first, end, cluster, offset) ==
  IF first # None THEN first + (offset - end)
  ELSE IF offset = end THEN None ELSE offset - cluster

\* the last value of free_entry_offset, which the caller takes for a free entry
ExpandOffset(first, end, cluster, count) ==
  IF first # None THEN first + count * cluster ELSE end + (count - 1) * cluster

\* mutant: the header of a cluster is not counted
WholeCluster(cluster) == cluster

\* overall_size_ and chunk_size_ of a new cluster: what its header leaves of it
ClusterCapacity(cluster) == cluster - DataOffset

(***************************************************************************)
(* ExpandPV on the device: the clusters are written from its end on, over  *)
(* whatever was there.                                                     *)
(***************************************************************************)
ExpandDisk(disk, first, end, cluster, count) ==
  LET new  == ClusterOffsets(end, cluster, count)
      kept == {p \in DOMAIN disk : p < end \/ end + count * cluster <= p}
  IN  [o \in kept \cup new |->
        IF o \in new
          THEN FreeHeader("kEmptyComplex", ClusterCapacity(cluster),
                          ClusterLink(first, end, cluster, o), cluster)
        ELSE IF o < end /\ count > 0 /\ end < o + Extent(disk[o])
          THEN [Overwritten EXCEPT !.room = disk[o].room]
        ELSE disk[o]]
=============================================================================
