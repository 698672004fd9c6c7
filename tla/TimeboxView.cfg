\* One page, its Scrum Master's clicks, and one other participant.
SPECIFICATION ViewSpec
CONSTANTS
  Rows = {x1, x2}
  Requests = {load, click, other}
  Load = load
  Click = click
  NoRow = NoRow
  NoView = NoView
  MaxTime = 2
  MaxControls = 2
INVARIANTS
  ElapsedUnlessTorn
  ShownIsLate
