\* Two archives, one in the other, with a kept candidate, a large trace and two
\* attachments of equal bytes, one of them prunable; three exports of a run:
\* another evaluation and another identity of the first; two importers.
CONSTANTS
  gds = gds
  trace = trace
  wave = wave
  log = log
  candidate = candidate
  text = text
  samples = samples
  first = first
  again = again
  other = other
  run = run
  eval1 = eval1
  eval2 = eval2
  id1 = id1
  id2 = id2
  None = None
  Junk = Junk
  Files <- MCFiles
  Nested = {wave, log}
  Large = {trace, wave, log}
  Named = {gds, log}
  Prunable = {log}
  Original <- MCOriginal
  MaxFaults = 1
  Importers = {p, q}
  Sources <- MCSources
  Cases = {first}
  RunOf <- MCRunOf
  EvaluationOf <- MCEvaluationOf
  IdentityOf <- MCIdentityOf
  Declared = {gds, trace}
  Candidate = gds
  Previews = {png}
SPECIFICATION Spec
SYMMETRY Symmetry
INVARIANTS EvidenceReadable ArchiveWhole
PROPERTIES ResultsImmutable
CHECK_DEADLOCK FALSE
