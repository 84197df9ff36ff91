SPECIFICATION ButtonSpec
INVARIANT ReportIsHeard
