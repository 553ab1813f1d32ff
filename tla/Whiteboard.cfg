\* Two requests of the page at a time, three rows.
CONSTANTS
  Slots = {i1, i2}
  MaxRows = 3
SPECIFICATION Spec
PROPERTIES
  PagesConverge
  SettledUntilPosted
