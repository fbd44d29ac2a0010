--------------------------- MODULE FormerRoadmap ---------------------------
(***************************************************************************)
(* The roadmap of twenty-nine epics that the current one replaced.  Its    *)
(* registrations are still in scripts/roadmap/epics, in the same form, but *)
(* generate-roadmap.mjs no longer calls them.  As in RoadmapPlan, `after`  *)
(* is the epic's depends_on and `leaves` maps each leaf to what it waits   *)
(* for.                                                                    *)
(***************************************************************************)
EXTENDS TLC

P00 == [after |-> {}, leaves |->
     "P00-01" :> {} @@ "P00-02" :> {"P00-01"} @@ "P00-03" :> {}
  @@ "P00-04" :> {"P00-03"} @@ "P00-05" :> {"P00-03"} @@ "P00-06" :> {"P00-01"}
  @@ "P00-07" :> {"P00-03"} @@ "P00-08" :> {"P00-03"} @@ "P00-09" :> {}
  @@ "P00-10" :> {"P00-03"} @@ "P00-11" :> {"P00-10", "P00-07"}]

P01 == [after |-> {"P00-01"}, leaves |->
     "P01-01" :> {"P00-01"} @@ "P01-02" :> {"P01-01"} @@ "P01-03" :> {"P01-01"}
  @@ "P01-04" :> {"P01-03"} @@ "P01-05" :> {"P01-02"}]

P02 == [after |-> {"P01-04"}, leaves |->
     "P02-01" :> {"P00-02"} @@ "P02-02" :> {"P02-01"}
  @@ "P02-03" :> {"P02-01", "P01-04"} @@ "P02-04" :> {"P02-03", "P01-02"}
  @@ "P02-05" :> {"P02-02"} @@ "P02-06" :> {"P02-01"} @@ "P02-07" :> {"P02-02"}
  @@ "P02-08" :> {"P02-02", "P02-05"}]

P03 == [after |-> {"P02-04"}, leaves |->
     "P03-01" :> {"P01-04"} @@ "P03-02" :> {} @@ "P03-03" :> {"P03-01"}
  @@ "P03-04" :> {"P03-03"} @@ "P03-05" :> {"P03-02", "P03-04"}
  @@ "P03-06" :> {"P03-03"} @@ "P03-07" :> {"P03-03"} @@ "P03-08" :> {"P03-03"}
  @@ "P03-09" :> {"P03-01", "P03-02"} @@ "P03-10" :> {"P03-09"}
  @@ "P03-11" :> {"P03-05", "P03-07"}]

P04 == [after |-> {"P02-01"}, leaves |->
     "P04-01" :> {} @@ "P04-02" :> {"P04-01"} @@ "P04-03" :> {"P04-01"}]

P05 == [after |-> {"P01-04", "P04-01"}, leaves |->
     "P05-01" :> {} @@ "P05-02" :> {} @@ "P05-03" :> {} @@ "P05-04" :> {}
  @@ "P05-05" :> {} @@ "P05-06" :> {}
  @@ "P05-07" :> {"P05-01", "P05-02", "P05-03", "P05-04", "P05-05", "P05-06"}]

P06 == [after |-> {"P05-07", "P03-08"}, leaves |->
     "P06-01" :> {} @@ "P06-02" :> {} @@ "P06-03" :> {"P05-01"}
  @@ "P06-04" :> {"P06-01", "P06-02"}]

P07 == [after |-> {"P05-07", "P04-03", "P03-08"}, leaves |->
     "P07-01" :> {} @@ "P07-02" :> {"P07-01"} @@ "P07-03" :> {"P07-01"}
  @@ "P07-04" :> {"P07-03"} @@ "P07-05" :> {"P07-02"} @@ "P07-06" :> {"P07-05"}]

P08 == [after |-> {"P07-03"}, leaves |->
     "P08-01" :> {} @@ "P08-02" :> {"P08-01"} @@ "P08-03" :> {"P08-01"}
  @@ "P08-04" :> {"P08-03"} @@ "P08-05" :> {"P08-02"} @@ "P08-06" :> {"P08-05"}]

P09 == [after |-> {"P08-03"}, leaves |->
     "P09-01" :> {} @@ "P09-02" :> {"P09-01"} @@ "P09-03" :> {"P09-01"}
  @@ "P09-04" :> {"P09-03"} @@ "P09-05" :> {"P09-02"} @@ "P09-06" :> {"P09-05"}]

P10 == [after |-> {"P05-05", "P04-01", "P03-08"}, leaves |->
     "P10-01" :> {"P04-01"} @@ "P10-02" :> {} @@ "P10-03" :> {"P10-01"}
  @@ "P10-04" :> {"P10-03"} @@ "P10-05" :> {} @@ "P10-06" :> {"P10-05"}]

P11 == [after |-> {"P07-03"}, leaves |->
     "P11-01" :> {} @@ "P11-02" :> {"P11-01"} @@ "P11-03" :> {"P11-01"}
  @@ "P11-04" :> {"P11-01"} @@ "P11-05" :> {"P11-02", "P11-03", "P11-04"}
  @@ "P11-06" :> {"P11-05"} @@ "P11-07" :> {"P11-06", "P07-02"}
  @@ "P11-08" :> {"P11-05"}]

P12 == [after |-> {"P08-03"}, leaves |->
     "P12-01" :> {} @@ "P12-02" :> {"P12-01"} @@ "P12-03" :> {"P12-01"}
  @@ "P12-04" :> {"P12-01"} @@ "P12-05" :> {"P12-01"}
  @@ "P12-06" :> {"P12-03", "P12-04", "P12-05"} @@ "P12-07" :> {"P12-06", "P07-02"}
  @@ "P12-08" :> {"P12-06"}]

P13 == [after |-> {"P10-03"}, leaves |->
     "P13-01" :> {} @@ "P13-02" :> {"P13-01"} @@ "P13-03" :> {"P13-01"}
  @@ "P13-04" :> {"P13-01", "P10-02"} @@ "P13-05" :> {"P13-02"}]

P14 == [after |-> {"P11-05", "P12-06", "P09-03", "P13-02"}, leaves |->
     "P14-01" :> {} @@ "P14-02" :> {"P12-02"} @@ "P14-03" :> {"P14-02"}
  @@ "P14-04" :> {"P14-02"} @@ "P14-05" :> {"P14-02"} @@ "P14-06" :> {"P05-06"}
  @@ "P14-07" :> {} @@ "P14-08" :> {"P14-06", "P06-01"} @@ "P14-10" :> {"P11-01"}
  @@ "P14-09" :> {"P14-03", "P14-04", "P14-05", "P14-10"}]

P15 == [after |-> {"P14-08"}, leaves |->
     "P15-01" :> {} @@ "P15-02" :> {} @@ "P15-03" :> {} @@ "P15-04" :> {}
  @@ "P15-05" :> {"P15-04"} @@ "P15-06" :> {"P15-04", "P02-08", "P03-08"}]

P16 == [after |-> {"P00-04", "P02-07"}, leaves |->
     "P16-01" :> {"P00-03"} @@ "P16-02" :> {"P16-01"} @@ "P16-03" :> {"P16-02"}
  @@ "P16-04" :> {"P16-03"}]

P17 == [after |-> {"P16-03"}, leaves |->
     "P17-01" :> {} @@ "P17-02" :> {"P17-01"} @@ "P17-03" :> {"P17-01"}
  @@ "P17-04" :> {"P17-01"} @@ "P17-05" :> {"P17-01"}
  @@ "P17-06" :> {"P17-01", "P15-03"}]

P18 == [after |-> {"P17-02", "P00-04"}, leaves |->
     "P18-01" :> {} @@ "P18-02" :> {} @@ "P18-03" :> {} @@ "P18-04" :> {"P17-02"}
  @@ "P18-05" :> {"P18-01", "P18-04"} @@ "P18-06" :> {"P18-01", "P17-02"}]

P19 == [after |-> {"P18-03", "P17-02"}, leaves |->
     "P19-01" :> {} @@ "P19-02" :> {} @@ "P19-03" :> {"P19-02"}
  @@ "P19-04" :> {"P19-03"}]

P20 == [after |-> {"P18-05", "P17-03"}, leaves |->
     "P20-01" :> {} @@ "P20-02" :> {"P20-01"} @@ "P20-03" :> {} @@ "P20-04" :> {}
  @@ "P20-05" :> {"P20-04"} @@ "P20-06" :> {"P20-01", "P17-06"}]

P21 == [after |-> {"P18-05", "P17-04"}, leaves |->
     "P21-01" :> {} @@ "P21-02" :> {} @@ "P21-03" :> {} @@ "P21-04" :> {"P21-02"}
  @@ "P21-05" :> {} @@ "P21-06" :> {"P21-05"}]

P22 == [after |-> {"P18-05", "P17-04"}, leaves |->
     "P22-01" :> {} @@ "P22-02" :> {} @@ "P22-03" :> {} @@ "P22-04" :> {}
  @@ "P22-05" :> {} @@ "P22-06" :> {"P22-05"}]

P23 == [after |-> {"P18-05", "P17-03"}, leaves |->
     "P23-01" :> {} @@ "P23-02" :> {} @@ "P23-03" :> {} @@ "P23-04" :> {}
  @@ "P23-05" :> {} @@ "P23-06" :> {"P23-05"}]

P24 == [after |-> {"P18-05", "P17-04"}, leaves |->
     "P24-01" :> {} @@ "P24-02" :> {} @@ "P24-03" :> {} @@ "P24-04" :> {}
  @@ "P24-05" :> {"P24-04"}]

P25 == [after |-> {"P18-05", "P17-03"}, leaves |->
     "P25-01" :> {} @@ "P25-02" :> {"P25-01"} @@ "P25-03" :> {"P25-02"}]

P26 == [after |-> {"P15-05", "P25-03"}, leaves |->
     "P26-01" :> {} @@ "P26-02" :> {} @@ "P26-03" :> {} @@ "P26-04" :> {"P26-03"}]

P27 == [after |-> {"P00-05", "P26-01"}, leaves |->
     "P27-01" :> {} @@ "P27-02" :> {"P27-01"} @@ "P27-03" :> {"P27-01"}
  @@ "P27-04" :> {"P27-01"} @@ "P27-05" :> {"P27-03"} @@ "P27-06" :> {"P00-09"}
  @@ "P27-07" :> {"P27-01", "P01-01", "P00-11"}]

P28 == [after |-> {"P27-05", "P26-04"}, leaves |->
     "P28-01" :> {"P11-08"} @@ "P28-02" :> {"P12-08"} @@ "P28-03" :> {"P14-09"}
  @@ "P28-04" :> {} @@ "P28-05" :> {"P26-04"}]

FormerlyRegistered ==
     "P00" :> P00 @@ "P01" :> P01 @@ "P02" :> P02 @@ "P03" :> P03 @@ "P04" :> P04
  @@ "P05" :> P05 @@ "P06" :> P06 @@ "P07" :> P07 @@ "P08" :> P08 @@ "P09" :> P09
  @@ "P10" :> P10 @@ "P11" :> P11 @@ "P12" :> P12 @@ "P13" :> P13 @@ "P14" :> P14
  @@ "P15" :> P15 @@ "P16" :> P16 @@ "P17" :> P17 @@ "P18" :> P18 @@ "P19" :> P19
  @@ "P20" :> P20 @@ "P21" :> P21 @@ "P22" :> P22 @@ "P23" :> P23 @@ "P24" :> P24
  @@ "P25" :> P25 @@ "P26" :> P26 @@ "P27" :> P27 @@ "P28" :> P28

=============================================================================
